---------------------------- MODULE Spec2Model ----------------------------
(***************************************************************************)
(* Action-planning engine of the form-fill agent (src/src/lib/             *)
(* action-engine.ts) with its two collaborators: the generative backend    *)
(* (src/src/lib/webllm.ts) and the prose generator (content-generator).    *)
(*                                                                         *)
(* Strings are TLA+ strings (sequences of characters).  Confidences are    *)
(* integers in units of 1/CONF_SCALE.  An AgentAction's id (a random UUID  *)
(* in the code) is modelled as a tuple naming the place that created the   *)
(* action, which keeps ids unique and opaque to the planner.               *)
(***************************************************************************)
EXTENDS Integers, Sequences, FiniteSets, TLC

(***************************************************************************)
(* String primitives of the JavaScript runtime used by the engine.         *)
(***************************************************************************)
charAt(s, i) == SubSeq(s, i, i)

isSpace(c) == c \in {" ", "\t", "\n", "\r", "\f"}

UPPER_TO_LOWER ==
  [A |-> "a", B |-> "b", C |-> "c", D |-> "d", E |-> "e", F |-> "f", G |-> "g",
   H |-> "h", I |-> "i", J |-> "j", K |-> "k", L |-> "l", M |-> "m", N |-> "n",
   O |-> "o", P |-> "p", Q |-> "q", R |-> "r", S |-> "s", T |-> "t", U |-> "u",
   V |-> "v", W |-> "w", X |-> "x", Y |-> "y", Z |-> "z"]

toLowerChar(c) == IF c \in DOMAIN UPPER_TO_LOWER THEN UPPER_TO_LOWER[c] ELSE c

RECURSIVE toLowerCase(_)
toLowerCase(s) ==
  IF Len(s) = 0 THEN ""
  ELSE toLowerChar(charAt(s, 1)) \o toLowerCase(SubSeq(s, 2, Len(s)))

RECURSIVE trimStart(_)
trimStart(s) ==
  IF Len(s) > 0 /\ isSpace(charAt(s, 1)) THEN trimStart(SubSeq(s, 2, Len(s)))
  ELSE s

RECURSIVE trimEnd(_)
trimEnd(s) ==
  IF Len(s) > 0 /\ isSpace(charAt(s, Len(s))) THEN trimEnd(SubSeq(s, 1, Len(s) - 1))
  ELSE s

trim(s) == trimEnd(trimStart(s))

\* String.prototype.includes
includes(s, t) ==
  \E i \in 1..(Len(s) - Len(t) + 1) : SubSeq(s, i, i + Len(t) - 1) = t

\* Array.prototype.join over a sequence of strings
RECURSIVE join(_, _)
join(parts, sep) ==
  IF Len(parts) = 0 THEN ""
  ELSE IF Len(parts) = 1 THEN parts[1]
  ELSE parts[1] \o sep \o join(Tail(parts), sep)

\* Array.prototype.filter(Boolean) over a sequence of strings
RECURSIVE filterNonEmpty(_)
filterNonEmpty(parts) ==
  IF Len(parts) = 0 THEN <<>>
  ELSE IF parts[1] = "" THEN filterNonEmpty(Tail(parts))
  ELSE <<parts[1]>> \o filterNonEmpty(Tail(parts))

\* a || b || ... on strings: the first non-empty one, else the last
RECURSIVE firstTruthy(_)
firstTruthy(parts) ==
  IF Len(parts) = 1 THEN parts[1]
  ELSE IF parts[1] # "" THEN parts[1]
  ELSE firstTruthy(Tail(parts))

normalize(value) == toLowerCase(trim(value))

(***************************************************************************)
(* OptionResolver: COUNTRY_ALIASES, jaroWinkler, resolveAlias,             *)
(* pickOptionValue.  A similarity score is an exact fraction <<n, d>>.     *)
(***************************************************************************)
COUNTRY_ALIASES == <<
  [canonical |-> "united states",
   aliases |-> <<"us", "usa", "u.s.", "u.s.a.", "united states of america", "america">>],
  [canonical |-> "united kingdom",
   aliases |-> <<"uk", "u.k.", "great britain", "gb", "england">>],
  [canonical |-> "canada", aliases |-> <<"ca", "can">>],
  [canonical |-> "australia", aliases |-> <<"au", "aus">>],
  [canonical |-> "germany", aliases |-> <<"de", "deutschland">>],
  [canonical |-> "france", aliases |-> <<"fr">>],
  [canonical |-> "india", aliases |-> <<"in">>],
  [canonical |-> "china", aliases |-> <<"cn", "prc">>],
  [canonical |-> "japan", aliases |-> <<"jp", "jpn">>],
  [canonical |-> "south korea", aliases |-> <<"kr", "korea">>],
  [canonical |-> "brazil", aliases |-> <<"br">>],
  [canonical |-> "mexico", aliases |-> <<"mx">>] >>

Max(x, y) == IF x >= y THEN x ELSE y
Min(x, y) == IF x <= y THEN x ELSE y

\* x/y < u/v for x, u >= 0 and y, v > 0, by integer parts and remainders
RECURSIVE fracLess(_, _, _, _)
fracLess(x, y, u, v) ==
  LET q1 == x \div y
      q2 == u \div v
      r1 == x % y
      r2 == u % v
  IN  IF q1 # q2 THEN q1 < q2
      ELSE IF r2 = 0 THEN FALSE
      ELSE IF r1 = 0 THEN TRUE
      ELSE fracLess(v, r2, y, r1)

scoreLess(s1, s2) == fracLess(s1[1], s1[2], s2[1], s2[2])

\* the matching loop of jaroWinkler (lines 144-154): for a[i], the first
\* unmatched j of the window with a[i] = b[j]; the result is the set of
\* matched pairs <<i, j>> (1-based)
RECURSIVE jaroMatches(_, _, _, _, _)
jaroMatches(a, b, i, matchWindow, pairs) ==
  IF i > Len(a) THEN pairs
  ELSE
    LET start == Max(1, i - matchWindow)
        end == Min(i + matchWindow, Len(b))
        free == {j \in start..end :
                   /\ \A p \in pairs : p[2] # j
                   /\ charAt(a, i) = charAt(b, j)}
    IN  IF free = {} THEN jaroMatches(a, b, i + 1, matchWindow, pairs)
        ELSE LET j == CHOOSE j \in free : \A k \in free : j <= k
             IN  jaroMatches(a, b, i + 1, matchWindow, pairs \cup {<<i, j>>})

\* the n-th smallest element of a set of integers
nthSmallest(S, n) == CHOOSE x \in S : Cardinality({y \in S : y < x}) = n - 1

\* jaro = (m/aLen + m/bLen + (m - t/2)/m) / 3, then
\* jaro + prefix * 0.1 * (1 - jaro), as a fraction
jaroScore(aLen, bLen, matches, transpositions, prefix) ==
  IF matches = 0 THEN <<0, 1>>
  ELSE LET jaroN == 2 * matches * matches * (aLen + bLen)
                      + (2 * matches - transpositions) * aLen * bLen
           jaroD == 6 * matches * aLen * bLen
       IN  <<10 * jaroN + prefix * (jaroD - jaroN), 10 * jaroD>>

\* matched characters that differ in order (the k loop)
jaroTranspositions(a, b, pairs) ==
  Cardinality({n \in 1..Cardinality(pairs) :
    charAt(a, nthSmallest({p[1] : p \in pairs}, n))
      # charAt(b, nthSmallest({p[2] : p \in pairs}, n))})

\* length of the common prefix, at most 4
commonPrefix(a, b) ==
  Cardinality({i \in 1..Min(4, Min(Len(a), Len(b))) :
    \A k \in 1..i : charAt(a, k) = charAt(b, k)})

jaroOfPairs(a, b, pairs) ==
  jaroScore(Len(a), Len(b), Cardinality(pairs), jaroTranspositions(a, b, pairs),
            commonPrefix(a, b))

jaroWinkler(a, b) ==
  IF a = b THEN <<1, 1>>
  ELSE IF Len(a) = 0 \/ Len(b) = 0 THEN <<0, 1>>
  ELSE jaroOfPairs(a, b,
         jaroMatches(a, b, 1, Max((Max(Len(a), Len(b)) \div 2) - 1, 0), {}))

\* [...new Set(candidates)]: first occurrences, in order
RECURSIVE dedupe(_)
dedupe(seq) ==
  IF Len(seq) = 0 THEN <<>>
  ELSE LET front == dedupe(SubSeq(seq, 1, Len(seq) - 1))
           last == seq[Len(seq)]
       IN  IF \E i \in 1..Len(front) : front[i] = last THEN front
           ELSE Append(front, last)

RECURSIVE aliasCandidates(_, _)
aliasCandidates(target, k) ==
  IF k > Len(COUNTRY_ALIASES) THEN <<>>
  ELSE
    LET e == COUNTRY_ALIASES[k]
        hit == target = e.canonical
                 \/ \E i \in 1..Len(e.aliases) : e.aliases[i] = target
    IN  (IF hit THEN <<e.canonical>> \o e.aliases ELSE <<>>)
          \o aliasCandidates(target, k + 1)

resolveAlias(target) == dedupe(<<target>> \o aliasCandidates(target, 1))

\* Array.prototype.find on a predicate already applied to each element:
\* the index of the first hit, 0 for undefined
firstHit(hits) ==
  IF \E i \in 1..Len(hits) : hits[i]
  THEN CHOOSE i \in 1..Len(hits) : hits[i] /\ \A j \in 1..(i - 1) : ~hits[j]
  ELSE 0

\* one pass for the value and the label: the first option either of which
\* equals t
findByValueOrLabel(options, t) ==
  firstHit([i \in 1..Len(options) |->
              normalize(options[i].value) = t \/ normalize(options[i].label) = t])

\* options.find((o) => normalize(o.value) === t)
findByValue(options, t) ==
  firstHit([i \in 1..Len(options) |-> normalize(options[i].value) = t])

\* options.find((o) => normalize(o.label) === t)
findByLabel(options, t) ==
  firstHit([i \in 1..Len(options) |-> normalize(options[i].label) = t])

\* normalizedLabel.includes(target) || target.includes(normalizedLabel)
substringHit(normalizedLabel, target) ==
  includes(normalizedLabel, target) \/ includes(target, normalizedLabel)

findBySubstring(options, target) ==
  firstHit([i \in 1..Len(options) |-> substringHit(normalize(options[i].label), target)])

\* a || b || c on indexes, 0 being undefined
firstTruthyIndex(a, b, c) == IF a # 0 THEN a ELSE IF b # 0 THEN b ELSE c

\* the alias loop of pickOptionValue (lines 198-204): index of the option
\* found for the first alias that finds one, 0 when none does
RECURSIVE findByAlias(_, _, _)
findByAlias(options, aliases, k) ==
  IF k > Len(aliases) THEN 0
  ELSE firstTruthyIndex(findByValue(options, aliases[k]), findByLabel(options, aliases[k]),
                        findByAlias(options, aliases, k + 1))

\* Math.max of two scores
maxScore(x, y) == IF scoreLess(x, y) THEN y ELSE x

optionScore(o, target) ==
  maxScore(jaroWinkler(target, normalize(o.label)),
           jaroWinkler(target, normalize(o.value)))

\* one round of the similarity loop: if (score > bestScore) { ... }
keepBetter(prev, score, value) ==
  IF scoreLess(prev.bestScore, score)
  THEN [bestScore |-> score, bestOption |-> value]
  ELSE prev

\* the similarity loop (lines 211-221): [bestScore, bestOption] after the
\* first k options
RECURSIVE bestMatch(_, _, _)
bestMatch(options, target, k) ==
  IF k = 0 THEN [bestScore |-> <<0, 1>>, bestOption |-> ""]
  ELSE keepBetter(bestMatch(options, target, k - 1),
                  optionScore(options[k], target), options[k].value)

SIMILARITY_NUM == 85
SIMILARITY_DEN == 100

\* the cascade without its similarity fallback (lines 211-222)
pickFromWithoutSimilarity(opts, exactValue, exactLabel, alias, substringLabel, best) ==
  IF exactValue # 0 THEN opts[exactValue].value
  ELSE IF exactLabel # 0 THEN opts[exactLabel].value
  ELSE IF alias # 0 THEN opts[alias].value
  ELSE IF substringLabel # 0 THEN opts[substringLabel].value
  ELSE ""

\* the cascade with the best-scoring option taken whatever its score
pickFromAnyScore(opts, exactValue, exactLabel, alias, substringLabel, best) ==
  IF exactValue # 0 THEN opts[exactValue].value
  ELSE IF exactLabel # 0 THEN opts[exactLabel].value
  ELSE IF alias # 0 THEN opts[alias].value
  ELSE IF substringLabel # 0 THEN opts[substringLabel].value
  ELSE best.bestOption

\* the cascade of pickOptionValue over what each strategy found (an index
\* into opts, 0 for none; best: the similarity loop's result)
pickFrom(opts, exactValue, exactLabel, alias, substringLabel, best) ==
  IF exactValue # 0 THEN opts[exactValue].value
  ELSE IF exactLabel # 0 THEN opts[exactLabel].value
  ELSE IF alias # 0 THEN opts[alias].value
  ELSE IF substringLabel # 0 THEN opts[substringLabel].value
  ELSE IF ~fracLess(best.bestScore[1], best.bestScore[2],
                    SIMILARITY_NUM, SIMILARITY_DEN)
       THEN best.bestOption
  ELSE ""

pickNormalized(opts, target) ==
  pickFrom(opts, findByValue(opts, target), findByLabel(opts, target),
           findByAlias(opts, resolveAlias(target), 1),
           findBySubstring(opts, target), bestMatch(opts, target, Len(opts)))

pickOptionValue(field, rawTarget) ==
  IF rawTarget = "" THEN ""
  ELSE pickNormalized(field.options, normalize(rawTarget))

(***************************************************************************)
(* Generative-field detection (content-generator): the regular             *)
(* expressions of GENERATIVE_PATTERNS as token sequences.  A token is a    *)
(* literal, \s* or \s+ ("ws" with a minimum), .* ("any"), an alternation   *)
(* (?:x|y) ("alt") or an optional group (?:x)? ("opt").                    *)
(***************************************************************************)
Lit(s) == [t |-> "lit", s |-> s]
Ws0 == [t |-> "ws", min |-> 0]
Ws1 == [t |-> "ws", min |-> 1]
AnyRun == [t |-> "any"]
Alt(alts) == [t |-> "alt", of |-> alts]
Opt(r) == [t |-> "opt", of |-> r]
Words(ws) == Alt([i \in 1..Len(ws) |-> <<Lit(ws[i])>>])

GENERATIVE_PATTERNS == <<
  <<Lit("cover"), Ws0, Lit("letter")>>,
  <<Lit("why"), Ws1, Opt(<<Lit("do"), Ws1>>),
    Alt(<< <<Lit("you")>>, <<Lit("are"), Ws1, Lit("you")>> >>), Ws1,
    Words(<<"want", "interested", "apply", "looking">>)>>,
  <<Lit("why"), Ws1, Words(<<"this", "our", "the">>), Ws1,
    Words(<<"company", "role", "position", "team", "job">>)>>,
  <<Lit("describe"), Ws1,
    Alt(<< <<Lit("your")>>, <<Lit("a"), Ws1, Lit("time")>>,
           <<Lit("a"), Ws1, Lit("situation")>>, <<Lit("yourself")>> >>)>>,
  <<Lit("tell"), Ws1, Lit("us"), Ws1, Words(<<"about", "why">>)>>,
  <<Lit("what"), Ws1, Lit("makes"), Ws1, Lit("you")>>,
  <<Lit("about"), Ws1, Words(<<"you", "yourself">>)>>,
  <<Lit("motivation")>>,
  <<Lit("interest"), Ws1, Lit("in"), Ws1, Words(<<"this", "the", "our">>)>>,
  <<Lit("additional"), Ws1, Words(<<"information", "comments", "notes">>)>>,
  <<Lit("anything"), Ws1,
    Alt(<< <<Lit("else")>>,
           <<Lit("you"), AnyRun, Words(<<"like", "want">>), AnyRun,
             Words(<<"share", "add", "mention">>)>> >>)>>,
  <<Lit("how"), Ws1, Lit("did"), Ws1, Lit("you"), Ws1, Lit("hear")>>,
  <<Lit("what"), Ws1, Words(<<"excites", "interests", "attracts">>), Ws1, Lit("you")>> >>

\* the positions (numbers of characters consumed) at which a match of the
\* token sequence re can end when it starts at one of the positions P
RECURSIVE matchSeq(_, _, _)
RECURSIVE matchTok(_, _, _)
matchSeq(re, s, P) ==
  IF Len(re) = 0 \/ P = {} THEN P
  ELSE matchSeq(Tail(re), s, matchTok(Head(re), s, P))

matchTok(tok, s, P) ==
  CASE tok.t = "lit" ->
         {p + Len(tok.s) : p \in {q \in P :
            q + Len(tok.s) <= Len(s) /\ SubSeq(s, q + 1, q + Len(tok.s)) = tok.s}}
    [] tok.t = "ws" ->
         {e \in 0..Len(s) : \E p \in P :
            e >= p + tok.min /\ \A k \in (p + 1)..e : isSpace(charAt(s, k))}
    [] tok.t = "any" ->
         {e \in 0..Len(s) : \E p \in P :
            e >= p /\ \A k \in (p + 1)..e : charAt(s, k) \notin {"\n", "\r"}}
    [] tok.t = "alt" ->
         UNION {matchSeq(tok.of[i], s, P) : i \in 1..Len(tok.of)}
    [] tok.t = "opt" -> P \cup matchSeq(tok.of, s, P)

\* RegExp.prototype.test
regexTest(re, s) == matchSeq(re, s, 0..Len(s)) # {}

isGenerativeField(label, kind) ==
  IF label = "" THEN FALSE
  ELSE LET combined == toLowerCase(label)
       IN  \/ \E i \in 1..Len(GENERATIVE_PATTERNS) :
                regexTest(GENERATIVE_PATTERNS[i], combined)
           \/ (kind = "textarea" /\ Len(combined) > 15)

(***************************************************************************)
(* FieldValueResolver: PROFILE_HINTS, composeLocationString,               *)
(* findProfileValueForField.                                               *)
(***************************************************************************)
PROFILE_HINTS == <<
  [key |-> "fullName", hints |-> <<"full name", "name", "legal name">>],
  [key |-> "email", hints |-> <<"email">>],
  [key |-> "phone", hints |-> <<"phone", "mobile", "telephone">>],
  [key |-> "city", hints |-> <<"city", "town", "municipality">>],
  [key |-> "state", hints |-> <<"state", "province", "region", "prefecture">>],
  [key |-> "country", hints |-> <<"country", "nation">>],
  [key |-> "zipCode", hints |-> <<"zip", "postal", "postcode", "zip code", "postal code">>],
  [key |-> "streetAddress",
   hints |-> <<"street", "address line", "address 1", "mailing address">>],
  [key |-> "linkedin", hints |-> <<"linkedin">>],
  [key |-> "github", hints |-> <<"github">>],
  [key |-> "portfolio", hints |-> <<"portfolio", "website", "personal site">>],
  [key |-> "currentTitle", hints |-> <<"title", "current role", "position">>],
  [key |-> "yearsExperience", hints |-> <<"years", "experience">>],
  [key |-> "workAuthorization", hints |-> <<"work authorization", "authorized", "visa">>],
  [key |-> "needsSponsorship", hints |-> <<"sponsorship", "sponsor">>] >>

composeLocationString(profile) ==
  join(filterNonEmpty(<<profile.city, profile.state, profile.country>>), ", ")

descriptorHits(descriptor, combined) ==
  \E h \in 1..Len(descriptor.hints) : includes(combined, normalize(descriptor.hints[h]))

\* the loop without its early return: the last matching entry wins
RECURSIVE lastHintValue(_, _, _)
lastHintValue(combined, profile, k) ==
  IF k > Len(PROFILE_HINTS) THEN ""
  ELSE IF lastHintValue(combined, profile, k + 1) # ""
       THEN lastHintValue(combined, profile, k + 1)
  ELSE IF descriptorHits(PROFILE_HINTS[k], combined)
       THEN profile[PROFILE_HINTS[k].key]
  ELSE ""

\* the loop over PROFILE_HINTS (lines 271-278) from entry k on: the value
\* of the first matching entry whose profile value is non-empty, else ""
RECURSIVE firstHintValue(_, _, _)
firstHintValue(combined, profile, k) ==
  IF k > Len(PROFILE_HINTS) THEN ""
  ELSE IF descriptorHits(PROFILE_HINTS[k], combined) /\ profile[PROFILE_HINTS[k].key] # ""
       THEN profile[PROFILE_HINTS[k].key]
  ELSE firstHintValue(combined, profile, k + 1)

findProfileValueForField(field, context) ==
  LET combined ==
        normalize(join(filterNonEmpty(<<field.label, field.name, field.placeholder>>), " "))
      direct == firstHintValue(combined, context.profile, 1)
  IN  IF combined = "" THEN ""
      ELSE IF direct # "" THEN direct
      ELSE IF includes(combined, "location") \/ includes(combined, "address")
           THEN composeLocationString(context.profile)
      ELSE ""

hasMeaningfulValue(field) ==
  IF field.kind = "checkbox" \/ field.kind = "radio"
  THEN field.currentValue = "true"
  ELSE Len(trim(field.currentValue)) > 0


(***************************************************************************)
(* RuleBasedPlanner and the pre-resolution pass.  A nullable AgentAction   *)
(* is a sequence of zero or one action.                                    *)
(***************************************************************************)
CONF_SCALE == 10000
RULE_FIELD_CENTER == 6200
RULE_NAV_CENTER == 5800
RULE_SPREAD == 1200
PRE_RESOLVED_CONFIDENCE == 8500
GENERATED_CONFIDENCE == 7500
NAV_CONFIDENCE == 5800
LLM_DEFAULT_CONFIDENCE == 6000
FORM_FILL_TYPES == {"setValue", "setSelect", "setCheckbox", "setRadio"}
ACTION_TYPES == FORM_FILL_TYPES \cup {"clickNext"}

NewId(by, n) == [by |-> by, n |-> n]

\* the words without "required"
CHECKED_WORDS_WITHOUT_REQUIRED == {"yes", "true", "1"}

\* ["yes", "true", "1", "required"] (line 320)
CHECKED_WORDS == {"yes", "true", "1", "required"}

convertFieldToAction(field, rawValue, source, confidence, id) ==
  IF rawValue = "" THEN <<>>
  ELSE IF field.kind = "select" THEN
    LET selected == pickOptionValue(field, rawValue)
    IN  IF selected = "" THEN <<>>
        ELSE <<[id |-> id, type |-> "setSelect", selector |-> field.selector,
                fieldLabel |-> firstTruthy(<<field.label, field.name, "select field">>),
                value |-> selected,
                reasoning |-> "Select option matched from " \o source \o " plan",
                confidence |-> confidence]>>
  ELSE IF field.kind = "checkbox" THEN
    LET target == normalize(rawValue)
        checked == \E v \in CHECKED_WORDS : includes(target, v)
    IN  <<[id |-> id, type |-> "setCheckbox", selector |-> field.selector,
           fieldLabel |-> firstTruthy(<<field.label, field.name, "checkbox">>),
           value |-> IF checked THEN "true" ELSE "false",
           reasoning |-> "Checkbox decision from " \o source \o " plan",
           confidence |-> confidence]>>
  ELSE IF field.kind = "radio" THEN
    <<[id |-> id, type |-> "setRadio", selector |-> field.selector,
       fieldLabel |-> firstTruthy(<<field.label, field.name, "radio field">>),
       value |-> firstTruthy(<<pickOptionValue(field, rawValue), rawValue>>),
       reasoning |-> "Radio option from " \o source \o " plan",
       confidence |-> confidence]>>
  ELSE
    <<[id |-> id, type |-> "setValue", selector |-> field.selector,
       fieldLabel |-> firstTruthy(<<field.label, field.name, "text field">>),
       value |-> rawValue,
       reasoning |-> "Field matched from " \o source \o " plan",
       confidence |-> confidence]>>

\* Math.max(0, Math.min(1, center + (Math.random() - 0.5) * spread)) with
\* Math.random() = r / 100, r in 0..99
ruleBasedConfidence(center, spread, r) ==
  Max(0, Min(CONF_SCALE, center + ((2 * r - 100) * spread) \div 200))

\* the callback without its hasMeaningfulValue guard (line 367)
ruleFieldActionUnguarded(snapshot, context, i, r) ==
  LET field == snapshot.fields[i]
      fieldLabel == firstTruthy(<<field.label, field.name, field.placeholder, "">>)
  IN  IF isGenerativeField(fieldLabel, field.kind) THEN <<>>
      ELSE convertFieldToAction(field, findProfileValueForField(field, context),
             "rule-based", ruleBasedConfidence(RULE_FIELD_CENTER, RULE_SPREAD, r),
             NewId("rule", i))

\* the callback without its isGenerativeField guard (lines 368-369)
ruleFieldActionForProse(snapshot, context, i, r) ==
  LET field == snapshot.fields[i]
  IN  IF hasMeaningfulValue(field) THEN <<>>
      ELSE convertFieldToAction(field, findProfileValueForField(field, context),
             "rule-based", ruleBasedConfidence(RULE_FIELD_CENTER, RULE_SPREAD, r),
             NewId("rule", i))

\* the callback of snapshot.fields.map in buildRuleBasedPlan (lines 366-373)
ruleFieldAction(snapshot, context, i, r) ==
  LET field == snapshot.fields[i]
      fieldLabel == firstTruthy(<<field.label, field.name, field.placeholder, "">>)
  IN  IF hasMeaningfulValue(field) THEN <<>>
      ELSE IF isGenerativeField(fieldLabel, field.kind) THEN <<>>
      ELSE convertFieldToAction(field, findProfileValueForField(field, context),
             "rule-based", ruleBasedConfidence(RULE_FIELD_CENTER, RULE_SPREAD, r),
             NewId("rule", i))

RECURSIVE ruleFieldActions(_, _, _, _)
ruleFieldActions(snapshot, context, rnd, i) ==
  IF i > Len(snapshot.fields) THEN <<>>
  ELSE ruleFieldAction(snapshot, context, i, rnd[i])
         \o ruleFieldActions(snapshot, context, rnd, i + 1)

\* rnd[i] is the Math.random() draw for field i, rnd[Len(fields) + 1] the
\* draw for the navigation action
buildRuleBasedPlan(snapshot, context, rnd) ==
  LET fieldActions == ruleFieldActions(snapshot, context, rnd, 1)
      nav == snapshot.navigationTargets
  IN  IF Len(nav) > 0
      THEN Append(fieldActions,
             [id |-> NewId("rule-nav", 0), type |-> "clickNext",
              selector |-> nav[1].selector,
              fieldLabel |-> firstTruthy(<<nav[1].text, "Next button">>),
              value |-> "",
              reasoning |-> "Detected likely navigation control",
              confidence |-> ruleBasedConfidence(RULE_NAV_CENTER, RULE_SPREAD,
                                                 rnd[Len(snapshot.fields) + 1])])
      ELSE fieldActions

\* the resolvedAction of each PreResolvedField, in field order
preResolveSelectField(snapshot, context, i) ==
  LET field == snapshot.fields[i]
      profileValue == findProfileValueForField(field, context)
      matched == pickOptionValue(field, profileValue)
      optIdx == IF \E k \in 1..Len(field.options) : field.options[k].value = matched
                THEN CHOOSE k \in 1..Len(field.options) :
                       /\ field.options[k].value = matched
                       /\ \A j \in 1..(k - 1) : field.options[j].value # matched
                ELSE 0
  IN  IF field.kind # "select" \/ hasMeaningfulValue(field) THEN <<>>
      ELSE IF profileValue = "" THEN <<>>
      ELSE IF matched = "" THEN <<>>
      ELSE <<[id |-> NewId("pre", i), type |-> "setSelect", selector |-> field.selector,
              fieldLabel |-> firstTruthy(<<field.label, field.name, "select field">>),
              value |-> matched,
              reasoning |-> "Pre-resolved: \"" \o profileValue \o "\" -> \""
                              \o (IF optIdx # 0 THEN field.options[optIdx].label ELSE matched)
                              \o "\"",
              confidence |-> PRE_RESOLVED_CONFIDENCE]>>

preResolveSelectFields(snapshot, context) ==
  [i \in 1..Len(snapshot.fields) |-> preResolveSelectField(snapshot, context, i)]

(***************************************************************************)
(* The merge map (a JavaScript Map keyed by selector): a sequence of       *)
(* entries in insertion order; set on an existing key keeps its place.     *)
(***************************************************************************)
mapHas(m, key) == \E i \in 1..Len(m) : m[i].key = key

\* an array push in place of Map.prototype.set
mapSetAppending(m, key, value) == Append(m, [key |-> key, value |-> value])

mapSet(m, key, value) ==
  IF mapHas(m, key)
  THEN [i \in 1..Len(m) |-> IF m[i].key = key THEN [key |-> key, value |-> value] ELSE m[i]]
  ELSE Append(m, [key |-> key, value |-> value])

mapValues(m) == [i \in 1..Len(m) |-> m[i].value]

\* for (const action of actions) mergedActions.set(action.selector, action)
RECURSIVE mapSetAll(_, _)
mapSetAll(m, actions) ==
  IF Len(actions) = 0 THEN m
  ELSE mapSetAll(mapSet(m, actions[1].selector, actions[1]), Tail(actions))

RECURSIVE flatten(_)
flatten(seqs) ==
  IF Len(seqs) = 0 THEN <<>> ELSE seqs[1] \o flatten(Tail(seqs))

\* the two loops in the other order: the rule-based actions written last
seedMergedActionsRulesLast(rules, pre) == mapSetAll(mapSetAll(<<>>, flatten(pre)), rules)

\* lines 646-654 of buildActionPlan
seedMergedActions(rules, pre) == mapSetAll(mapSetAll(<<>>, rules), flatten(pre))

\* the comparator of sortActions
compareActions(a, b) ==
  LET aIsFill == a.type \in FORM_FILL_TYPES
      bIsFill == b.type \in FORM_FILL_TYPES
  IN  IF aIsFill /\ ~bIsFill THEN -1
      ELSE IF ~aIsFill /\ bIsFill THEN 1
      ELSE 0

\* Array.prototype.sort is stable: x goes before the first element that
\* the comparator orders after it
insertSorted(sorted, x) ==
  LET later == {i \in 1..Len(sorted) : compareActions(sorted[i], x) > 0}
      at == IF later = {} THEN Len(sorted) + 1
            ELSE CHOOSE i \in later : \A j \in later : i <= j
  IN  SubSeq(sorted, 1, at - 1) \o <<x>> \o SubSeq(sorted, at, Len(sorted))

\* a plan returned in map order, without the sort
unsortedActions(actions) == actions

RECURSIVE sortActions(_)
sortActions(actions) ==
  IF Len(actions) = 0 THEN <<>>
  ELSE insertSorted(sortActions(SubSeq(actions, 1, Len(actions) - 1)),
                    actions[Len(actions)])

\* the navigation action set only where the map holds none for the selector
appendNavActionIfAbsent(snapshot, mergedActions, n) ==
  LET nav == snapshot.navigationTargets
  IN  IF Len(nav) > 0 /\ ~mapHas(mergedActions, nav[1].selector)
      THEN mapSet(mergedActions, nav[1].selector,
             [id |-> NewId("nav", n), type |-> "clickNext",
              selector |-> nav[1].selector,
              fieldLabel |-> firstTruthy(<<nav[1].text, "Next button">>),
              value |-> "",
              reasoning |-> "Detected likely navigation control",
              confidence |-> NAV_CONFIDENCE])
      ELSE mergedActions

appendNavAction(snapshot, mergedActions, n) ==
  LET nav == snapshot.navigationTargets
  IN  IF Len(nav) > 0
      THEN mapSet(mergedActions, nav[1].selector,
             [id |-> NewId("nav", n), type |-> "clickNext",
              selector |-> nav[1].selector,
              fieldLabel |-> firstTruthy(<<nav[1].text, "Next button">>),
              value |-> "",
              reasoning |-> "Detected likely navigation control",
              confidence |-> NAV_CONFIDENCE])
      ELSE mergedActions


(***************************************************************************)
(* ResponseParser.  The backend's raw text is modelled by what the parser  *)
(* reads of it: its syntax class and the objects it lists.  A raw object   *)
(* holds each property as a sequence of zero (absent) or one value.        *)
(*   "json"       JSON.parse accepts the text extractLikelyJson returns    *)
(*                ({actions: [...]} or a bare array)                       *)
(*   "repairable" only repairJson's output parses (bare keys, single       *)
(*                quotes, trailing commas): the objects of the raw text    *)
(*                are not JSON one by one                                  *)
(*   "fragments"  no candidate parses, the objects are JSON one by one     *)
(*   "garbage"    no JSON at all                                           *)
(***************************************************************************)
WHOLE_LIST_SYNTAX == {"json", "repairable"}
OBJECT_SCAN_SYNTAX == {"json", "fragments"}

orDefault(opt, default) == IF Len(opt) = 0 THEN default ELSE opt[1]

\* the schema without .min(0).max(1) on confidence
llmActionSchemaAcceptsAnyConfidence(o) ==
  /\ Len(o.selector) = 1 /\ Len(o.selector[1]) >= 1
  /\ Len(o.type) = 1 /\ o.type[1] \in ACTION_TYPES

\* llmActionSchema.safeParse(o).success
llmActionSchemaAccepts(o) ==
  /\ Len(o.selector) = 1 /\ Len(o.selector[1]) >= 1
  /\ Len(o.type) = 1 /\ o.type[1] \in ACTION_TYPES
  /\ Len(o.confidence) = 0 \/ (o.confidence[1] >= 0 /\ o.confidence[1] <= CONF_SCALE)

\* llmActionSchema.safeParse(o).data: the defaults applied
llmActionSchemaData(o) ==
  [selector |-> o.selector[1], type |-> o.type[1],
   fieldLabel |-> orDefault(o.fieldLabel, ""),
   value |-> orDefault(o.value, ""),
   reasoning |-> orDefault(o.reasoning, ""),
   confidence |-> orDefault(o.confidence, LLM_DEFAULT_CONFIDENCE)]

\* objectPattern matches an object text with "selector": "<non-empty>"
objectPatternMatches(o) == Len(o.selector) = 1 /\ Len(o.selector[1]) >= 1

RECURSIVE salvageObjects(_)
salvageObjects(objects) ==
  IF Len(objects) = 0 THEN <<>>
  ELSE (IF objectPatternMatches(objects[1]) /\ llmActionSchemaAccepts(objects[1])
        THEN <<llmActionSchemaData(objects[1])>> ELSE <<>>)
         \o salvageObjects(Tail(objects))

\* [isNull |-> TRUE] for null, else the validated list
tryParseActions(raw) ==
  LET whole == /\ raw.syntax \in WHOLE_LIST_SYNTAX
               /\ Len(raw.objects) > 0
               /\ \A i \in 1..Len(raw.objects) : llmActionSchemaAccepts(raw.objects[i])
      partial == IF raw.syntax \in OBJECT_SCAN_SYNTAX
                 THEN salvageObjects(raw.objects) ELSE <<>>
  IN  IF whole
      THEN [isNull |-> FALSE,
            list |-> [i \in 1..Len(raw.objects) |-> llmActionSchemaData(raw.objects[i])]]
      ELSE IF Len(partial) > 0 THEN [isNull |-> FALSE, list |-> partial]
      ELSE [isNull |-> TRUE, list |-> <<>>]

(***************************************************************************)
(* ResponseParser on the characters of a response: extractLikelyJson,      *)
(* repairJson, JSON.parse and the schemas, for texts of JSON without       *)
(* \u escapes and with numbers of at most four decimals.                   *)
(***************************************************************************)
\* String.prototype.substring: positions a to b, cut at the end of s
slice(s, a, b) == SubSeq(s, a, Min(b, Len(s)))

\* String.prototype.indexOf from position i on (1-based), 0 when absent
indexFrom(s, t, i) ==
  IF \E k \in i..(Len(s) - Len(t) + 1) : SubSeq(s, k, k + Len(t) - 1) = t
  THEN CHOOSE k \in i..(Len(s) - Len(t) + 1) :
         /\ SubSeq(s, k, k + Len(t) - 1) = t
         /\ \A j \in i..(k - 1) : SubSeq(s, j, j + Len(t) - 1) # t
  ELSE 0

\* String.prototype.lastIndexOf of a character, 0 when absent
lastIndexOf(s, c) ==
  IF \E k \in 1..Len(s) : charAt(s, k) = c
  THEN CHOOSE k \in 1..Len(s) :
         charAt(s, k) = c /\ \A j \in (k + 1)..Len(s) : charAt(s, j) # c
  ELSE 0

\* the first position from i on that holds no character of the class
\* (Len(s) + 1 when the class runs to the end): the end of a greedy \s*, \w+
RECURSIVE skipClass(_, _, _)
skipClass(s, i, class) ==
  IF i <= Len(s) /\ charAt(s, i) \in class THEN skipClass(s, i + 1, class) ELSE i

WHITESPACE == {" ", "\t", "\n", "\r", "\f"}

WORD_CHARS ==
  {"a", "b", "c", "d", "e", "f", "g", "h", "i", "j", "k", "l", "m", "n", "o", "p",
   "q", "r", "s", "t", "u", "v", "w", "x", "y", "z", "_",
   "0", "1", "2", "3", "4", "5", "6", "7", "8", "9"} \cup DOMAIN UPPER_TO_LOWER

\* the fence of a code block, three backquotes.  A string of this module
\* cannot hold a backquote: the tilde stands for it in every text
FENCE == "~~~"

\* the capture of /FENCE(?:json)?\s*([\s\S]*?)FENCE/i at the fence that
\* starts at position open: [found, text]
fencedCapture(raw, open) ==
  LET afterTag == IF toLowerCase(slice(raw, open + 3, open + 6)) = "json"
                  THEN open + 7 ELSE open + 3
      from == skipClass(raw, afterTag, WHITESPACE)
      close == indexFrom(raw, FENCE, from)
  IN  IF open = 0 \/ close = 0 THEN [found |-> FALSE, text |-> ""]
      ELSE [found |-> TRUE, text |-> SubSeq(raw, from, close - 1)]

\* raw.slice(firstBracket, lastBracket + 1) when both brackets are there
bracketSlice(raw, firstBracket, lastBracket) ==
  IF firstBracket >= 1 /\ lastBracket > firstBracket
  THEN SubSeq(raw, firstBracket, lastBracket)
  ELSE raw

bracketsOrRaw(raw) == bracketSlice(raw, indexFrom(raw, "[", 1), lastIndexOf(raw, "]"))

fencedOr(fenced, raw) ==
  IF fenced.found /\ fenced.text # "" THEN trim(fenced.text) ELSE bracketsOrRaw(raw)

extractLikelyJson(raw) == fencedOr(fencedCapture(raw, indexFrom(raw, FENCE, 1)), raw)

\* the concatenation of pieces[lo..hi], by halves
RECURSIVE concatRange(_, _, _)
concatRange(pieces, lo, hi) ==
  IF lo > hi THEN ""
  ELSE IF lo = hi THEN pieces[lo]
  ELSE concatRange(pieces, lo, (lo + hi) \div 2)
         \o concatRange(pieces, ((lo + hi) \div 2) + 1, hi)

\* the last position up to i that holds no character of the class, 0 when
\* there is none
skipBack(s, i, class) ==
  IF \E k \in 1..i : charAt(s, k) \notin class
  THEN CHOOSE k \in 1..i :
         charAt(s, k) \notin class /\ \A j \in (k + 1)..i : charAt(s, j) \in class
  ELSE 0

\* whether the character at position at is c
holds(s, at, c) == at >= 1 /\ at <= Len(s) /\ charAt(s, at) = c

\* text.replace(/,\s*([}\]])/g, "$1"): a comma, and the whitespace after
\* it, go when a closing brace or bracket follows them
dropTrailingCommas(text) ==
  concatRange(
    [i \in 1..Len(text) |->
       IF /\ charAt(text, i) \in WHITESPACE \cup {","}
          /\ holds(text, skipBack(text, i, WHITESPACE), ",")
          /\ \/ holds(text, skipClass(text, i + 1, WHITESPACE), "}")
             \/ holds(text, skipClass(text, i + 1, WHITESPACE), "]")
       THEN "" ELSE charAt(text, i)],
    1, Len(text))

countOf(text, c) == Cardinality({k \in 1..Len(text) : charAt(text, k) = c})

RECURSIVE repeat(_, _)
repeat(c, n) == IF n = 0 THEN "" ELSE c \o repeat(c, n - 1)

\* lines 69-76 of repairJson: the missing closers.  "]".repeat(n) throws a
\* RangeError for n < 0: [threw, text]
balance(text) ==
  IF Len(text) > 0 /\ charAt(text, 1) = "[" /\ charAt(text, Len(text)) # "]"
  THEN IF countOf(text, "[") < countOf(text, "]")
       THEN [threw |-> TRUE, text |-> text]
       ELSE [threw |-> FALSE,
             text |-> text \o repeat("]", countOf(text, "[") - countOf(text, "]"))]
  ELSE IF Len(text) > 0 /\ charAt(text, 1) = "{" /\ charAt(text, Len(text)) # "}"
       THEN [threw |-> FALSE, text |-> "[" \o text \o "}]"]
  ELSE [threw |-> FALSE, text |-> text]

\* text.replace(/'/g, '"')
doubleQuotes(text) ==
  concatRange([i \in 1..Len(text) |->
                 IF charAt(text, i) = "'" THEN "\"" ELSE charAt(text, i)],
              1, Len(text))

\* whether a run of word characters that ends before position wordEnd is
\* followed by whitespace and a colon
colonFollows(text, wordEnd) == holds(text, skipClass(text, wordEnd, WHITESPACE), ":")

\* what text.replace(/(\w+)\s*:/g, '"$1":') leaves of the character at
\* position i: a run of word characters before a colon is quoted at its
\* first character, and the whitespace between the two goes
quotedKeyPiece(text, i) ==
  IF charAt(text, i) \in WORD_CHARS
  THEN IF colonFollows(text, skipClass(text, i, WORD_CHARS))
       THEN IF skipBack(text, i, WORD_CHARS) = i - 1
            THEN "\"" \o SubSeq(text, i, skipClass(text, i, WORD_CHARS) - 1) \o "\""
            ELSE ""
       ELSE charAt(text, i)
  ELSE IF charAt(text, i) \in WHITESPACE
  THEN IF /\ skipBack(text, i, WHITESPACE) >= 1
          /\ charAt(text, skipBack(text, i, WHITESPACE)) \in WORD_CHARS
          /\ colonFollows(text, i)
       THEN "" ELSE charAt(text, i)
  ELSE charAt(text, i)

\* repairJson without its last replacement: bare keys stay bare
keysLeftBare(text) == text

quoteKeys(text) ==
  concatRange([i \in 1..Len(text) |-> quotedKeyPiece(text, i)], 1, Len(text))

repairBalanced(balanced) ==
  [threw |-> balanced.threw, text |-> quoteKeys(doubleQuotes(balanced.text))]

\* [threw, text]
repairJson(raw) == repairBalanced(balance(dropTrailingCommas(trim(raw))))

(***************************************************************************)
(* JSON.parse.  A JSON value is a record tagged by t: "string" (s),        *)
(* "number" (n, in units of 1/CONF_SCALE), "true", "false", "null",        *)
(* "array" (items) and "object" (entries, in text order).  A parser        *)
(* returns [ok, v, at]: at is the position after what it read.             *)
(***************************************************************************)
JSON_WHITESPACE == {" ", "\t", "\n", "\r"}
DIGITS == <<"0", "1", "2", "3", "4", "5", "6", "7", "8", "9">>
DIGIT_CHARS == {DIGITS[k] : k \in 1..10}

SyntaxError == [ok |-> FALSE, v |-> [t |-> "null"], at |-> 0]
Parsed(v, at) == [ok |-> TRUE, v |-> v, at |-> at]

\* the value of a string of digits
RECURSIVE digitsValue(_)
digitsValue(ds) ==
  IF Len(ds) = 0 THEN 0
  ELSE 10 * digitsValue(SubSeq(ds, 1, Len(ds) - 1))
         + (CHOOSE k \in 1..10 : DIGITS[k] = charAt(ds, Len(ds))) - 1

\* the character an escape sequence stands for ("" for the ones left out)
unescape(c) ==
  CASE c = "n" -> "\n" [] c = "t" -> "\t" [] c = "r" -> "\r" [] c = "f" -> "\f"
    [] c \in {"\"", "\\", "/"} -> c
    [] OTHER -> ""

\* the characters of a string literal from position i (after the opening
\* quote) up to the closing quote
RECURSIVE parseChars(_, _, _)
parseChars(text, i, acc) ==
  IF i > Len(text) \/ charAt(text, i) \in {"\n", "\t", "\r", "\f"} THEN SyntaxError
  ELSE IF charAt(text, i) = "\"" THEN Parsed([t |-> "string", s |-> acc], i + 1)
  ELSE IF charAt(text, i) = "\\"
       THEN IF i + 1 > Len(text) \/ unescape(charAt(text, i + 1)) = "" THEN SyntaxError
            ELSE parseChars(text, i + 2, acc \o unescape(charAt(text, i + 1)))
  ELSE parseChars(text, i + 1, acc \o charAt(text, i))

\* a number whose digits start at i: intEnd and fracEnd are the ends of
\* the integer digits and of the fraction digits
numberOf(text, negative, i, intEnd, fracEnd) ==
  IF intEnd = i \/ (intEnd > i + 1 /\ charAt(text, i) = "0") THEN SyntaxError
  ELSE IF fracEnd = intEnd + 1 THEN SyntaxError
  ELSE IF fracEnd <= Len(text) /\ charAt(text, fracEnd) \in {"e", "E"} THEN SyntaxError
  ELSE Parsed([t |-> "number",
               n |-> (IF negative THEN -1 ELSE 1)
                       * (digitsValue(SubSeq(text, i, intEnd - 1)) * CONF_SCALE
                          + digitsValue(SubSeq(SubSeq(text, intEnd + 1, fracEnd - 1)
                                                 \o "0000", 1, 4)))],
              fracEnd)

fractionEnd(text, intEnd) ==
  IF intEnd <= Len(text) /\ charAt(text, intEnd) = "."
  THEN skipClass(text, intEnd + 1, DIGIT_CHARS) ELSE intEnd

parseDigits(text, negative, i) ==
  numberOf(text, negative, i, skipClass(text, i, DIGIT_CHARS),
           fractionEnd(text, skipClass(text, i, DIGIT_CHARS)))

parseNumber(text, i) ==
  IF charAt(text, i) = "-" THEN parseDigits(text, TRUE, i + 1)
  ELSE parseDigits(text, FALSE, i)

parseLiteral(text, i, word) ==
  IF slice(text, i, i + Len(word) - 1) = word
  THEN Parsed([t |-> word], i + Len(word)) ELSE SyntaxError

RECURSIVE parseValue(_, _)
RECURSIVE parseItems(_, _, _)
RECURSIVE parseEntries(_, _, _)

\* after an item of an array: a comma and the next item, or the end
afterItem(text, item, items) ==
  IF ~item.ok THEN SyntaxError
  ELSE IF skipClass(text, item.at, JSON_WHITESPACE) > Len(text) THEN SyntaxError
  ELSE IF charAt(text, skipClass(text, item.at, JSON_WHITESPACE)) = ","
       THEN parseItems(text, skipClass(text, item.at, JSON_WHITESPACE) + 1,
                       Append(items, item.v))
  ELSE IF charAt(text, skipClass(text, item.at, JSON_WHITESPACE)) = "]"
       THEN Parsed([t |-> "array", items |-> Append(items, item.v)],
                   skipClass(text, item.at, JSON_WHITESPACE) + 1)
  ELSE SyntaxError

\* the items of an array, from position i on
parseItems(text, i, items) ==
  afterItem(text, parseValue(text, skipClass(text, i, JSON_WHITESPACE)), items)

\* after the value of an entry of an object
afterEntry(text, key, value, entries) ==
  IF ~value.ok THEN SyntaxError
  ELSE IF skipClass(text, value.at, JSON_WHITESPACE) > Len(text) THEN SyntaxError
  ELSE IF charAt(text, skipClass(text, value.at, JSON_WHITESPACE)) = ","
       THEN parseEntries(text, skipClass(text, value.at, JSON_WHITESPACE) + 1,
                         Append(entries, [key |-> key.v.s, value |-> value.v]))
  ELSE IF charAt(text, skipClass(text, value.at, JSON_WHITESPACE)) = "}"
       THEN Parsed([t |-> "object",
                    entries |-> Append(entries, [key |-> key.v.s, value |-> value.v])],
                   skipClass(text, value.at, JSON_WHITESPACE) + 1)
  ELSE SyntaxError

\* after the key of an entry: the colon and the value
afterKey(text, key, entries) ==
  IF ~key.ok THEN SyntaxError
  ELSE IF skipClass(text, key.at, JSON_WHITESPACE) > Len(text) THEN SyntaxError
  ELSE IF charAt(text, skipClass(text, key.at, JSON_WHITESPACE)) # ":" THEN SyntaxError
  ELSE afterEntry(text, key,
                  parseValue(text, skipClass(text, skipClass(text, key.at, JSON_WHITESPACE) + 1,
                                             JSON_WHITESPACE)),
                  entries)

\* the entries of an object, from position i on
parseEntryAt(text, i, entries) ==
  IF i > Len(text) \/ charAt(text, i) # "\"" THEN SyntaxError
  ELSE afterKey(text, parseChars(text, i + 1, ""), entries)

parseEntries(text, i, entries) ==
  parseEntryAt(text, skipClass(text, i, JSON_WHITESPACE), entries)

\* what follows an opening bracket or brace at position i - 1: the closer
\* at once, or the members
parseMembers(text, i, opener) ==
  IF i <= Len(text) /\ opener = "[" /\ charAt(text, i) = "]"
  THEN Parsed([t |-> "array", items |-> <<>>], i + 1)
  ELSE IF i <= Len(text) /\ opener = "{" /\ charAt(text, i) = "}"
  THEN Parsed([t |-> "object", entries |-> <<>>], i + 1)
  ELSE IF opener = "[" THEN parseItems(text, i, <<>>)
  ELSE parseEntries(text, i, <<>>)

\* the value that starts at position i (no whitespace before it)
parseValue(text, i) ==
  IF i > Len(text) THEN SyntaxError
  ELSE IF charAt(text, i) = "\"" THEN parseChars(text, i + 1, "")
  ELSE IF charAt(text, i) \in {"[", "{"}
       THEN parseMembers(text, skipClass(text, i + 1, JSON_WHITESPACE), charAt(text, i))
  ELSE IF charAt(text, i) = "t" THEN parseLiteral(text, i, "true")
  ELSE IF charAt(text, i) = "f" THEN parseLiteral(text, i, "false")
  ELSE IF charAt(text, i) = "n" THEN parseLiteral(text, i, "null")
  ELSE IF charAt(text, i) \in DIGIT_CHARS \cup {"-"} THEN parseNumber(text, i)
  ELSE SyntaxError

\* the whole text is one value
wholeText(text, parsed) ==
  IF parsed.ok /\ skipClass(text, parsed.at, JSON_WHITESPACE) = Len(text) + 1
  THEN parsed ELSE SyntaxError

\* JSON.parse: ok is FALSE where it throws a SyntaxError
jsonParse(text) ==
  wholeText(text, parseValue(text, skipClass(text, 1, JSON_WHITESPACE)))

(***************************************************************************)
(* tryParseActions on the characters of a response.                        *)
(***************************************************************************)
\* obj[key]: the value of the last entry with the key, as a sequence of
\* zero (undefined) or one JSON value
jsonProperty(obj, key) ==
  LET at == {k \in 1..Len(obj.entries) : obj.entries[k].key = key}
  IN  IF at = {} THEN <<>>
      ELSE <<obj.entries[CHOOSE k \in at : \A j \in at : j <= k].value>>

\* the property as the schema reads it: of the type, or undefined
typedProperty(property, type, field) ==
  IF Len(property) = 1 /\ property[1].t = type THEN <<property[1][field]>> ELSE <<>>

\* the object in the shape llmActionSchemaAccepts takes
asRawObject(obj) ==
  [selector |-> typedProperty(jsonProperty(obj, "selector"), "string", "s"),
   type |-> typedProperty(jsonProperty(obj, "type"), "string", "s"),
   fieldLabel |-> typedProperty(jsonProperty(obj, "fieldLabel"), "string", "s"),
   value |-> typedProperty(jsonProperty(obj, "value"), "string", "s"),
   reasoning |-> typedProperty(jsonProperty(obj, "reasoning"), "string", "s"),
   confidence |-> typedProperty(jsonProperty(obj, "confidence"), "number", "n")]

\* llmActionSchema.safeParse(v).success for a JSON value: an object whose
\* properties, where present, have the type the schema names
llmActionSchemaAcceptsJson(v) ==
  /\ v.t = "object"
  /\ \A key \in {"selector", "type", "fieldLabel", "value", "reasoning"} :
       jsonProperty(v, key) = <<>> \/ jsonProperty(v, key)[1].t = "string"
  /\ jsonProperty(v, "confidence") = <<>> \/ jsonProperty(v, "confidence")[1].t = "number"
  /\ llmActionSchemaAccepts(asRawObject(v))

\* llmActionListSchema.safeParse(v): the data of a success, as a sequence
\* of zero (failure) or one list
llmActionListOf(v) ==
  IF v.t = "array" /\ \A k \in 1..Len(v.items) : llmActionSchemaAcceptsJson(v.items[k])
  THEN <<[k \in 1..Len(v.items) |-> llmActionSchemaData(asRawObject(v.items[k]))]>>
  ELSE <<>>

\* wrappedSchema.safeParse(v), likewise
wrappedListOf(v) ==
  IF v.t = "object" /\ jsonProperty(v, "actions") # <<>>
  THEN llmActionListOf(jsonProperty(v, "actions")[1])
  ELSE <<>>

\* lines 88-96 on a parsed candidate: the list returned, if one is
listOfParsed(wrapped, direct) ==
  IF Len(wrapped) = 1 /\ Len(wrapped[1]) > 0 THEN wrapped
  ELSE IF Len(direct) = 1 /\ Len(direct[1]) > 0 THEN direct
  ELSE <<>>

\* the body of the candidate loop (lines 87-97)
listOfCandidate(parsed) ==
  IF parsed.ok THEN listOfParsed(wrappedListOf(parsed.v), llmActionListOf(parsed.v))
  ELSE <<>>

\* whether /"selector"\s*:\s*"[^"]+?"/ matches in a text without braces
namesSelector(segment) ==
  \E k \in 1..Len(segment) :
    /\ slice(segment, k, k + 9) = "\"selector\""
    /\ LET colon == skipClass(segment, k + 10, WHITESPACE)
           quote == skipClass(segment, colon + 1, WHITESPACE)
       IN  /\ colon <= Len(segment) /\ charAt(segment, colon) = ":"
           /\ quote + 1 <= Len(segment)
           /\ charAt(segment, quote) = "\""
           /\ charAt(segment, quote + 1) # "\""
           /\ indexFrom(segment, "\"", quote + 2) # 0

\* raw.match(objectPattern) from position i on: the texts between an
\* opening brace and the next brace, a closing one, that name a selector
RECURSIVE objectPatternMatchesIn(_, _)
objectsFromBrace(raw, open, next) ==
  IF open = 0 \/ next > Len(raw) THEN <<>>
  ELSE IF charAt(raw, next) = "{" THEN objectPatternMatchesIn(raw, next)
  ELSE (IF namesSelector(SubSeq(raw, open, next)) THEN <<SubSeq(raw, open, next)>>
        ELSE <<>>) \o objectPatternMatchesIn(raw, next + 1)

objectPatternMatchesIn(raw, i) ==
  objectsFromBrace(raw, indexFrom(raw, "{", i),
    IF indexFrom(raw, "{", i) = 0 THEN 0
    ELSE CHOOSE n \in (indexFrom(raw, "{", i) + 1)..(Len(raw) + 1) :
           /\ n <= Len(raw) => charAt(raw, n) \in {"{", "}"}
           /\ \A j \in (indexFrom(raw, "{", i) + 1)..(n - 1) : charAt(raw, j) \notin {"{", "}"})

\* the loop over the matched objects (lines 104-109)
RECURSIVE salvageTexts(_)
salvageOne(parsed) ==
  IF parsed.ok /\ llmActionSchemaAcceptsJson(parsed.v)
  THEN <<llmActionSchemaData(asRawObject(parsed.v))>> ELSE <<>>

salvageTexts(objects) ==
  IF Len(objects) = 0 THEN <<>>
  ELSE salvageOne(jsonParse(objects[1])) \o salvageTexts(Tail(objects))

\* the candidate loop over [extracted, repairJson(extracted), repairJson(raw)],
\* then the object scan
parseCandidates(raw, first, second, third, partial) ==
  IF Len(first) = 1 THEN [threw |-> FALSE, isNull |-> FALSE, list |-> first[1]]
  ELSE IF Len(second) = 1 THEN [threw |-> FALSE, isNull |-> FALSE, list |-> second[1]]
  ELSE IF Len(third) = 1 THEN [threw |-> FALSE, isNull |-> FALSE, list |-> third[1]]
  ELSE IF Len(partial) > 0 THEN [threw |-> FALSE, isNull |-> FALSE, list |-> partial]
  ELSE [threw |-> FALSE, isNull |-> TRUE, list |-> <<>>]

\* the array of candidates is built before the loop: a RangeError of
\* repairJson leaves tryParseActions
parseRepaired(raw, extracted, repairedExtracted, repairedRaw) ==
  IF repairedExtracted.threw \/ repairedRaw.threw
  THEN [threw |-> TRUE, isNull |-> TRUE, list |-> <<>>]
  ELSE parseCandidates(raw, listOfCandidate(jsonParse(extracted)),
                       listOfCandidate(jsonParse(repairedExtracted.text)),
                       listOfCandidate(jsonParse(repairedRaw.text)),
                       salvageTexts(objectPatternMatchesIn(raw, 1)))

parseExtracted(raw, extracted) ==
  parseRepaired(raw, extracted, repairJson(extracted), repairJson(raw))

\* tryParseActions on a text: [threw, isNull, list]
tryParseActionsOfText(raw) == parseExtracted(raw, extractLikelyJson(raw))

(***************************************************************************)
(* PlanMerger                                                              *)
(***************************************************************************)
allowedSelectorsOf(snapshot) ==
  {snapshot.fields[i].selector : i \in 1..Len(snapshot.fields)}
    \cup {snapshot.navigationTargets[i].selector : i \in 1..Len(snapshot.navigationTargets)}

\* snapshot.fields.find((f) => f.selector === selector): its index, 0 for undefined
findFieldBySelector(snapshot, selector) ==
  IF \E i \in 1..Len(snapshot.fields) : snapshot.fields[i].selector = selector
  THEN CHOOSE i \in 1..Len(snapshot.fields) :
         /\ snapshot.fields[i].selector = selector
         /\ \A j \in 1..(i - 1) : snapshot.fields[j].selector # selector
  ELSE 0

\* the loop body without its two continue guards (lines 549, 551): every
\* parsed action is set, whatever selector it names
llmFinalActionUnguarded(llmAction, snapshot, allowedSelectors, id) ==
  <<[id |-> id, type |-> llmAction.type, selector |-> llmAction.selector,
     fieldLabel |-> llmAction.fieldLabel, value |-> llmAction.value,
     reasoning |-> firstTruthy(<<llmAction.reasoning, "LLM refinement">>),
     confidence |-> llmAction.confidence]>>

\* one iteration of the loop of mergeLlmActions: the action set for
\* parsed[k], or none
llmFinalAction(llmAction, snapshot, allowedSelectors, id) ==
  LET f == findFieldBySelector(snapshot, llmAction.selector)
      field == snapshot.fields[f]
      reasoning == firstTruthy(<<llmAction.reasoning, "LLM refinement">>)
  IN  IF llmAction.selector \notin allowedSelectors THEN <<>>
      ELSE IF f = 0 THEN <<>>
      ELSE IF field.kind = "select" THEN
        LET resolved == pickOptionValue(field, llmAction.value)
        IN  IF resolved = "" THEN <<>>
            ELSE <<[id |-> id, type |-> llmAction.type, selector |-> llmAction.selector,
                    fieldLabel |-> llmAction.fieldLabel, value |-> resolved,
                    reasoning |-> reasoning, confidence |-> llmAction.confidence]>>
      ELSE <<[id |-> id, type |-> llmAction.type, selector |-> llmAction.selector,
              fieldLabel |-> llmAction.fieldLabel, value |-> llmAction.value,
              reasoning |-> reasoning, confidence |-> llmAction.confidence]>>

\* [map |-> the merged map, count |-> the returned count] after parsed[k..]
RECURSIVE mergeLlmFrom(_, _, _, _, _, _, _)
mergeLlmFrom(parsed, snapshot, allowedSelectors, mergedActions, count, k, by) ==
  IF k > Len(parsed) THEN [map |-> mergedActions, count |-> count]
  ELSE
    LET final == llmFinalAction(parsed[k], snapshot, allowedSelectors, NewId(by, k))
    IN  IF Len(final) = 0
        THEN mergeLlmFrom(parsed, snapshot, allowedSelectors, mergedActions, count, k + 1, by)
        ELSE mergeLlmFrom(parsed, snapshot, allowedSelectors,
                          mapSet(mergedActions, final[1].selector, final[1]),
                          count + 1, k + 1, by)

\* the merge with the order of the writes turned round: the entries the map
\* held before are written again over the backend's
mergeLlmActionsUnderSeed(parsed, snapshot, allowedSelectors, mergedActions, by) ==
  LET merged == mergeLlmFrom(parsed, snapshot, allowedSelectors, mergedActions, 0, 1, by)
  IN  [map |-> mapSetAll(merged.map, mapValues(mergedActions)), count |-> merged.count]

\* the merge that counts the backend's actions and stores none of them
mergeLlmActionsCountOnly(parsed, snapshot, allowedSelectors, mergedActions, by) ==
  [map |-> mergedActions,
   count |-> mergeLlmFrom(parsed, snapshot, allowedSelectors, mergedActions, 0, 1, by).count]

mergeLlmActions(parsed, snapshot, allowedSelectors, mergedActions, by) ==
  mergeLlmFrom(parsed, snapshot, allowedSelectors, mergedActions, 0, 1, by)

isHardWebLlmUnavailableError(message) ==
  includes(message, "WebLLM unavailable in this browser context")

\* generativeFields of generateContentForFields (lines 604-608): field indices
RECURSIVE generativeFieldsFrom(_, _)
generativeFieldsFrom(snapshot, i) ==
  IF i > Len(snapshot.fields) THEN <<>>
  ELSE
    LET field == snapshot.fields[i]
        fieldLabel == firstTruthy(<<field.label, field.name, field.placeholder, "">>)
    IN  (IF ~hasMeaningfulValue(field) /\ isGenerativeField(fieldLabel, field.kind)
         THEN <<i>> ELSE <<>>) \o generativeFieldsFrom(snapshot, i + 1)

generativeFieldsOf(snapshot) == generativeFieldsFrom(snapshot, 1)

generatedAction(snapshot, i, content) ==
  LET field == snapshot.fields[i]
  IN  [id |-> NewId("gen", i), type |-> "setValue", selector |-> field.selector,
       fieldLabel |-> firstTruthy(<<field.label, field.name, "text field">>),
       value |-> content,
       reasoning |-> "Generated from resume + job context",
       confidence |-> GENERATED_CONFIDENCE]

\* snapshot.fields.filter((f) => !hasMeaningfulValue(f)).length
totalFieldsOf(snapshot) ==
  Cardinality({i \in 1..Len(snapshot.fields) : ~hasMeaningfulValue(snapshot.fields[i])})


(***************************************************************************)
(* Inputs: snapshots, contexts, backend responses.                         *)
(***************************************************************************)
MaxFields == 2
MaxLlmActions == 2

Field(selector, kind, label, options, currentValue) ==
  [selector |-> selector, kind |-> kind, label |-> label, name |-> "",
   placeholder |-> "", required |-> FALSE, options |-> options,
   currentValue |-> currentValue]

COUNTRY_OPTIONS == <<[label |-> "United States", value |-> "US"],
                     [label |-> "Canada", value |-> "CA"]>>
SOURCE_OPTIONS == <<[label |-> "LinkedIn", value |-> "li"],
                    [label |-> "Other", value |-> "other"]>>
YES_NO_OPTIONS == <<[label |-> "Yes", value |-> "Yes"], [label |-> "No", value |-> "No"]>>

\* the sequences of at most n elements of seq, in the order of seq
Subsequences(seq, n) ==
  {[k \in 1..Cardinality(S) |-> seq[nthSmallest(S, k)]] :
     S \in {T \in SUBSET (1..Len(seq)) : Cardinality(T) <= n}}

\* the controls of a form, in document order; "#email" appears blank and
\* filled, so that two entries of a snapshot can share a selector
FieldPool == <<
  Field("#email", "email", "Email Address", <<>>, " "),
  Field("#email", "email", "Email Address", <<>>, "x@y.z"),
  Field("#country", "select", "Country", COUNTRY_OPTIONS, ""),
  Field("#sponsor", "checkbox", "Sponsorship required", <<>>, "false"),
  Field("#auth", "radio", "Work authorization", YES_NO_OPTIONS, ""),
  Field("#cover", "textarea", "Cover Letter", <<>>, ""),
  Field("#hear", "select", "How did you hear about us", SOURCE_OPTIONS, ""),
  Field("#status", "textarea", "Describe your work authorization status", <<>>, "") >>

NavPool == <<[id |-> "nav-0", selector |-> "#next", text |-> "Next"],
             [id |-> "nav-1", selector |-> "#continue", text |-> ""]>>

\* no navigation target, or two
NavChoices == {<<>>, NavPool}

FOREIGN_SELECTOR == "#evil"

\* extractFormSnapshot gives field i the id field-<i - 1>; i stands for it.
\* A snapshot holds up to MaxFields of the controls
Snapshots ==
  {[fields |-> [i \in 1..Len(fs) |-> [id |-> i] @@ fs[i]], navigationTargets |-> nav] :
     fs \in Subsequences(FieldPool, MaxFields), nav \in NavChoices}

EmptyProfile ==
  [fullName |-> "", email |-> "", phone |-> "", city |-> "", state |-> "",
   country |-> "", zipCode |-> "", streetAddress |-> "", linkedin |-> "",
   github |-> "", portfolio |-> "", currentTitle |-> "", yearsExperience |-> "",
   workAuthorization |-> "", needsSponsorship |-> "", summary |-> ""]

Contexts ==
  {[profile |-> EmptyProfile],
   [profile |-> [EmptyProfile EXCEPT !.fullName = "Ada Lovelace", !.email = "a@b.com",
                   !.city = "Austin", !.country = "USA",
                   !.workAuthorization = "Yes", !.needsSponsorship = "No"]]}

\* Math.random() draws, in hundredths: the two ends of [0, 1)
RandomDraws == {0, 99}

\* the draws of one invocation, one per field and one for the navigation
\* action: all at the same end
RandomSequences(n) == {[i \in 1..n |-> r] : r \in RandomDraws}

RawObject(selector, type, value, confidence) ==
  [selector |-> selector, type |-> type, fieldLabel |-> <<>>, value |-> value,
   reasoning |-> <<>>, confidence |-> confidence]

\* the objects a backend may write about field i: a value and a click
fieldObjects(snap, i) ==
  <<RawObject(<<snap.fields[i].selector>>, <<"setValue">>, <<"usa">>, <<>>),
    RawObject(<<snap.fields[i].selector>>, <<"clickNext">>, <<>>, <<CONF_SCALE>>)>>

\* the objects a backend may write: those about each field, a click on the
\* first navigation target, a value for a selector the snapshot does not
\* hold, and objects the schema refuses (no selector, a confidence above 1)
RawObjects(snap) ==
  dedupe(flatten([i \in 1..Len(snap.fields) |-> fieldObjects(snap, i)])
    \o [i \in 1..Min(1, Len(snap.navigationTargets)) |->
          RawObject(<<snap.navigationTargets[i].selector>>, <<"clickNext">>, <<>>, <<0>>)]
    \o <<RawObject(<<FOREIGN_SELECTOR>>, <<"setValue">>, <<"usa">>, <<>>),
         RawObject(<<>>, <<"setValue">>, <<"x">>, <<>>),
         RawObject(<<"#email">>, <<"setValue">>, <<"x">>, <<CONF_SCALE + 5000>>)>>)

\* the texts a backend may return: no JSON at all, a JSON array of up to
\* MaxLlmActions of the objects, and at most one object in the other shapes
RawResponses(snap) ==
  {[syntax |-> "garbage", objects |-> <<>>]}
    \cup {[syntax |-> "json", objects |-> os] :
            os \in Subsequences(RawObjects(snap), MaxLlmActions)}
    \cup {[syntax |-> sx, objects |-> os] :
            sx \in {"repairable", "fragments"},
            os \in Subsequences(RawObjects(snap), 1)}

GeneratedContents == {"Dear Hiring Manager, I am writing to apply.", ""}

\* rejections of runWebLlmPrompt (webllm.ts): the hard failure reason that
\* warmupWebLlm keeps and rethrows, the missing WebGPU error, and an error
\* of the engine library, rethrown as it is, that carries the text the
\* planner looks for
HARD_FAILURE_REASON == "Using rule-based planning."
NO_WEBGPU_DETAIL == "WebGPU is not available in this browser"
UNAVAILABLE_DETAIL == "WebLLM unavailable in this browser context (no WebGPU adapter)"

(***************************************************************************)
(* buildActionPlan as a state machine: one step per synchronous segment,   *)
(* from one await to the next.                                             *)
(***************************************************************************)
VARIABLES
  snapshot,           \* the FormSnapshot argument
  context,            \* the AgentContext argument
  pc,                 \* where buildActionPlan is suspended
  ruleActions,        \* buildRuleBasedPlan's result
  preResolved,        \* preResolveSelectFields' result
  mergedActions,      \* the merge map
  pendingGenerative,  \* generative fields not yet handled by the for loop
  generatedCount,     \* generated of generateContentForFields
  llmError,
  result,             \* the PlanResult returned
  inflight,           \* asynchronous calls started and not yet settled
  callLog,            \* every call start and settlement, in order
  hardFailureReason,  \* webllm.ts module state
  probe,              \* a function of the engine applied on its own: its
                      \* name, its arguments and (once applied) its result
  \* the overlay component FloatingMenu of src/src/contents/form-agent.tsx
  hostname,           \* host of the page the content script runs in
  storedWhitelist,    \* the whitelist in chrome.storage
  hydration,          \* the hydrate effect: pending, resolved or rejected
  isWhitelisted,
  whitelist,
  agency,
  capturedSnapshot,   \* the component's snapshot state: where it came from
  actionQueue,        \* the component's actions state
  currentActionIndex,
  isBusy,
  isStopped,
  observing,          \* the auto-capture effect is mounted
  timer,              \* the debounce timer of the mounted effect is pending
  orphanTimers,       \* how many timers of effects already cleaned up are pending
  planning,           \* invocations of handlePlanActions awaiting their plan
  ran,                \* the calls of executeAction made by the latest step
  stopPending,        \* Stop was clicked and Reset has not been since
  \* the module state of src/src/lib/webllm.ts, next to hardFailureReason
  engine,             \* the MLCEngine kept, or none
  pendingLoad,        \* the promise kept, or none
  currentModelId,
  userModelOverride,
  status,
  gpu,                \* "gpu" in navigator
  loads,              \* the CreateMLCEngine calls that have not settled
  pendingCalls,       \* the calls of the exported functions not yet settled
  lastEvent           \* what the latest step did

planVars == <<snapshot, context, pc, ruleActions, preResolved, mergedActions,
              pendingGenerative, generatedCount, llmError, result, inflight,
              callLog, hardFailureReason>>

panelVars == <<hostname, storedWhitelist, hydration, isWhitelisted, whitelist,
               agency, capturedSnapshot, actionQueue, currentActionIndex, isBusy,
               isStopped, observing, timer, orphanTimers,
               planning, ran, stopPending>>

engineVars == <<engine, pendingLoad, currentModelId, userModelOverride, status, gpu,
                loads, pendingCalls, lastEvent>>

\* the state outside an invocation of buildActionPlan
outsidePlan == <<probe, panelVars, engineVars>>

vars == <<planVars, outsidePlan>>

NoProbe == [fn |-> "none", arg |-> <<>>, out |-> <<>>]

DEFAULT_WHITELIST ==
  <<"jobs.lever.co", "boards.greenhouse.io", "job-boards.greenhouse.io",
    "myworkdayjobs.com">>

\* autoExecuteThreshold in units of 1/CONF_SCALE; showCaptureToast and
\* captureOnFirstFocus decide no capture, plan or execution and are left out
DEFAULT_AGENCY == [autoCapture |-> TRUE, autoPlan |-> TRUE, autoExecuteThreshold |-> 0]

\* the useState initialisers of FloatingMenu
InitialRender ==
  /\ isWhitelisted = TRUE
  /\ whitelist = DEFAULT_WHITELIST
  /\ agency = DEFAULT_AGENCY
  /\ capturedSnapshot = "null"
  /\ actionQueue = <<>>
  /\ currentActionIndex = 0
  /\ isBusy = FALSE
  /\ isStopped = FALSE
  /\ planning = 0
  /\ ran = <<>>
  /\ stopPending = FALSE

\* the component is not mounted: no effect has run
PanelUnmounted ==
  /\ hostname = ""
  /\ storedWhitelist = DEFAULT_WHITELIST
  /\ hydration = "unmounted"
  /\ InitialRender
  /\ observing = FALSE
  /\ timer = FALSE
  /\ orphanTimers = 0

NoEngine == [load |-> 0, modelId |-> ""]
NoLoad == 0
NoEvent == [op |-> "none", arg |-> "", started |-> FALSE, rejected |-> {}, returned |-> {}]

\* the initial values of the module variables of webllm.ts (lines 41-52)
EngineNotLoaded ==
  /\ engine = NoEngine
  /\ pendingLoad = NoLoad
  /\ currentModelId = ""
  /\ userModelOverride = ""
  /\ status = [state |-> "idle", detail |-> "Not loaded", modelId |-> ""]

\* no function of webllm.ts has been called
EngineIdle ==
  /\ EngineNotLoaded
  /\ gpu = TRUE
  /\ loads = {}
  /\ pendingCalls = {}
  /\ lastEvent = NoEvent

NoResult == [source |-> "none", actions |-> <<>>, llmDetail |-> [kind |-> "none"]]

Init ==
  /\ snapshot \in Snapshots
  /\ context \in Contexts
  /\ pc = "start"
  /\ ruleActions = <<>>
  /\ preResolved = <<>>
  /\ mergedActions = <<>>
  /\ pendingGenerative = <<>>
  /\ generatedCount = 0
  /\ llmError = ""
  /\ result = NoResult
  /\ inflight = {}
  /\ callLog = <<>>
  /\ hardFailureReason \in {"", HARD_FAILURE_REASON}
  /\ probe = NoProbe
  /\ PanelUnmounted
  /\ EngineIdle

GenerateCall(i) == [fn |-> "generateFieldContent", arg |-> i]
PromptCall(attempt) == [fn |-> "runWebLlmPrompt", arg |-> attempt]

Started(call) == [event |-> "start", call |-> call, outcome |-> "pending"]
Settled(call, outcome) == [event |-> "settle", call |-> call, outcome |-> outcome]

\* generateContentForFields with Promise.all in place of the awaiting loop
generateCallsToStartTogether(pending) ==
  {GenerateCall(pending[k]) : k \in 1..Len(pending)}

\* the for loop of generateContentForFields awaits each call before the
\* next: with fields pending, the call that is started next
generateCallsToStart(pending) == {GenerateCall(Head(pending))}

\* generateContentForFields without its try block
caughtCallsWithoutGenerate == {"runWebLlmPrompt"}

\* the awaited calls whose rejection is caught by a try block
\* (lines 613-629, 666-684, 697-719)
caughtCalls == {"generateFieldContent", "runWebLlmPrompt"}

\* the start events of a set of calls, by argument
startEvents(calls) ==
  [k \in 1..Cardinality(calls) |->
     Started(CHOOSE c \in calls : c.arg = nthSmallest({d.arg : d \in calls}, k))]

\* from the start, or from the settlement of one generateFieldContent call,
\* to the next await: the next generation call or, the loop being over, the
\* attempt-1 backend call (lines 611-668)
ContinueGeneration(pending, settledInflight, log) ==
  LET calls == IF Len(pending) > 0 THEN generateCallsToStart(pending)
               ELSE {PromptCall(1)}
  IN  /\ pendingGenerative' = pending
      /\ inflight' = settledInflight \cup calls
      /\ callLog' = log \o startEvents(calls)
      /\ pc' = IF Len(pending) > 0 THEN "awaitGenerate" ELSE "awaitAttempt1"

\* lines 638-656, to the first await
Start ==
  /\ pc = "start"
  /\ \E rnd \in RandomSequences(Len(snapshot.fields) + 1) :
       LET rules == buildRuleBasedPlan(snapshot, context, rnd)
           pre == preResolveSelectFields(snapshot, context)
       IN  /\ ruleActions' = rules
           /\ preResolved' = pre
           /\ mergedActions' = seedMergedActions(rules, pre)
  /\ ContinueGeneration(generativeFieldsOf(snapshot), inflight, callLog)
  /\ UNCHANGED <<snapshot, context, generatedCount, llmError, result, hardFailureReason>>
  /\ UNCHANGED outsidePlan

\* an exception leaves buildActionPlan: its promise rejects
Throw(call, log) ==
  /\ pc' = "threw"
  /\ inflight' = inflight \ {call}
  /\ callLog' = log
  /\ UNCHANGED <<snapshot, context, ruleActions, preResolved, mergedActions,
                 pendingGenerative, generatedCount, llmError, result,
                 hardFailureReason>>

\* every content taken for prose
anyContentKept(content) == TRUE

\* if (content): line 615
contentKept(content) == content # ""

\* generateFieldContent resolves with content (possibly empty): lines 614-626
GenerateResolves ==
  /\ pc = "awaitGenerate"
  /\ \E call \in {c \in inflight : c.fn = "generateFieldContent"},
        content \in GeneratedContents :
       /\ call.arg = Head(pendingGenerative)
       /\ IF contentKept(content)
          THEN /\ mergedActions' =
                    mapSet(mergedActions, snapshot.fields[call.arg].selector,
                           generatedAction(snapshot, call.arg, content))
               /\ generatedCount' = generatedCount + 1
          ELSE UNCHANGED <<mergedActions, generatedCount>>
       /\ ContinueGeneration(Tail(pendingGenerative), inflight \ {call},
            Append(callLog, Settled(call, IF content # "" THEN "content" ELSE "empty")))
  /\ UNCHANGED <<snapshot, context, ruleActions, preResolved, llmError, result,
                 hardFailureReason>>
  /\ UNCHANGED outsidePlan

\* generateFieldContent rejects: the catch of lines 627-629
GenerateRejects ==
  /\ pc = "awaitGenerate"
  /\ \E call \in {c \in inflight : c.fn = "generateFieldContent"} :
       /\ call.arg = Head(pendingGenerative)
       /\ IF call.fn \in caughtCalls
          THEN /\ ContinueGeneration(Tail(pendingGenerative), inflight \ {call},
                    Append(callLog, Settled(call, "rejected")))
               /\ UNCHANGED <<snapshot, context, ruleActions, preResolved,
                              mergedActions, generatedCount, llmError, result,
                              hardFailureReason>>
          ELSE Throw(call, Append(callLog, Settled(call, "rejected")))
  /\ UNCHANGED outsidePlan

\* the outcomes of one runWebLlmPrompt call: the raw text, or a rejection
\* with its message (isError: whether the rejection value is an Error)
PromptOutcomes ==
  IF hardFailureReason # ""
  THEN {[kind |-> "reject", isError |-> TRUE, message |-> hardFailureReason,
         hardFailure |-> TRUE]}
  ELSE {[kind |-> "resolve", raw |-> r] : r \in RawResponses(snapshot)}
         \cup {[kind |-> "reject", isError |-> TRUE, message |-> HARD_FAILURE_REASON,
                hardFailure |-> TRUE]}
         \cup {[kind |-> "reject", isError |-> TRUE, message |-> m, hardFailure |-> FALSE] :
                 m \in {UNAVAILABLE_DETAIL, NO_WEBGPU_DETAIL}}

\* whether an attempt is accepted: parsed && parsed.length > 0
Accepted(outcome) ==
  /\ outcome.kind = "resolve"
  /\ ~tryParseActions(outcome.raw).isNull
  /\ Len(tryParseActions(outcome.raw).list) > 0

\* how a settled backend call is logged
OutcomeTag(outcome) ==
  IF outcome.kind = "resolve"
  THEN IF tryParseActions(outcome.raw).isNull THEN "unparseable" ELSE "parsed"
  ELSE IF outcome.hardFailure THEN "rejected-hard"
  ELSE IF outcome.message = UNAVAILABLE_DETAIL THEN "rejected-unavailable"
  ELSE "rejected"


\* the accepted return without its call of appendNavAction
ReturnRefinedWithoutNav(outcome, by, kind) ==
  LET merged == mergeLlmActions(tryParseActions(outcome.raw).list, snapshot,
                                allowedSelectorsOf(snapshot), mergedActions, by)
  IN  /\ mergedActions' = merged.map
      /\ result' = [source |-> "hybrid",
                    actions |-> sortActions(mapValues(merged.map)),
                    llmDetail |-> [kind |-> kind, llmCount |-> merged.count,
                                   totalFields |-> totalFieldsOf(snapshot),
                                   generatedCount |-> generatedCount,
                                   llmError |-> llmError]]
      /\ pc' = "done"

\* the return of an accepted attempt (lines 672-679, 707-714)
ReturnRefined(outcome, by, kind) ==
  LET merged == mergeLlmActions(tryParseActions(outcome.raw).list, snapshot,
                                allowedSelectorsOf(snapshot), mergedActions, by)
      final == appendNavAction(snapshot, merged.map, 1)
  IN  /\ mergedActions' = final
      /\ result' = [source |-> "hybrid",
                    actions |-> sortActions(mapValues(final)),
                    llmDetail |-> [kind |-> kind, llmCount |-> merged.count,
                                   totalFields |-> totalFieldsOf(snapshot),
                                   generatedCount |-> generatedCount,
                                   llmError |-> llmError]]
      /\ pc' = "done"

\* the return without the navigation action appended
ReturnUnrefinedWithoutNav(error, kind) ==
  /\ mergedActions' = mergedActions
  /\ result' = [source |-> IF generatedCount > 0 THEN "hybrid" ELSE "rule-based",
                actions |-> sortActions(mapValues(mergedActions)),
                llmDetail |-> [kind |-> kind, llmCount |-> 0,
                               totalFields |-> totalFieldsOf(snapshot),
                               generatedCount |-> generatedCount,
                               llmError |-> error]]
  /\ pc' = "done"

\* the return that calls every plan without refinement rule-based
ReturnUnrefinedRuleBased(error, kind) ==
  LET final == appendNavAction(snapshot, mergedActions, 1)
  IN  /\ mergedActions' = final
      /\ result' = [source |-> "rule-based",
                    actions |-> sortActions(mapValues(final)),
                    llmDetail |-> [kind |-> kind, llmCount |-> 0,
                                   totalFields |-> totalFieldsOf(snapshot),
                                   generatedCount |-> generatedCount,
                                   llmError |-> error]]
      /\ pc' = "done"

\* the returns without refinement (lines 687-693, 722-728)
ReturnUnrefined(error, kind) ==
  LET final == appendNavAction(snapshot, mergedActions, 1)
  IN  /\ mergedActions' = final
      /\ result' = [source |-> IF generatedCount > 0 THEN "hybrid" ELSE "rule-based",
                    actions |-> sortActions(mapValues(final)),
                    llmDetail |-> [kind |-> kind, llmCount |-> 0,
                                   totalFields |-> totalFieldsOf(snapshot),
                                   generatedCount |-> generatedCount,
                                   llmError |-> error]]
      /\ pc' = "done"

\* llmError after a failed attempt 1 (lines 681-684)
attempt1Error(outcome) ==
  IF outcome.kind = "resolve" THEN "LLM returned unparseable output"
  ELSE IF outcome.isError THEN outcome.message
  ELSE "LLM call failed"

\* llmError after a failed attempt 2 (lines 716-719)
attempt2Error(error, outcome) ==
  IF outcome.kind = "resolve" THEN error \o "; retry also returned unparseable output"
  ELSE error \o "; retry failed: " \o (IF outcome.isError THEN outcome.message ELSE "unknown")

\* the module state of webllm.ts after a call settles (lines 158-165)
hardFailureAfter(outcome) ==
  IF outcome.kind = "reject" /\ outcome.hardFailure THEN outcome.message
  ELSE hardFailureReason

\* the attempt-1 backend call settles: lines 668-703, to the return or to
\* the await of attempt 2
Attempt1Settles ==
  /\ pc = "awaitAttempt1"
  /\ PromptCall(1) \in inflight
  /\ \E outcome \in PromptOutcomes :
       LET log == Append(callLog, Settled(PromptCall(1), OutcomeTag(outcome)))
           error == attempt1Error(outcome)
       IN  /\ hardFailureReason' = hardFailureAfter(outcome)
           /\ IF outcome.kind = "reject" /\ "runWebLlmPrompt" \notin caughtCalls
              THEN /\ pc' = "threw"
                   /\ inflight' = inflight \ {PromptCall(1)}
                   /\ callLog' = log
                   /\ UNCHANGED <<mergedActions, llmError, result>>
              ELSE IF Accepted(outcome)
              THEN /\ ReturnRefined(outcome, "llm1", "refined")
                   /\ inflight' = inflight \ {PromptCall(1)}
                   /\ callLog' = log
                   /\ UNCHANGED llmError
              ELSE IF isHardWebLlmUnavailableError(error)
              THEN /\ ReturnUnrefined(error, "skipped-retry")
                   /\ llmError' = error
                   /\ inflight' = inflight \ {PromptCall(1)}
                   /\ callLog' = log
              ELSE /\ llmError' = error
                   /\ inflight' = (inflight \ {PromptCall(1)}) \cup {PromptCall(2)}
                   /\ callLog' = Append(log, Started(PromptCall(2)))
                   /\ pc' = "awaitAttempt2"
                   /\ UNCHANGED <<mergedActions, result>>
  /\ UNCHANGED <<snapshot, context, ruleActions, preResolved, pendingGenerative,
                 generatedCount>>
  /\ UNCHANGED outsidePlan

\* the attempt-2 backend call settles: lines 699-728
Attempt2Settles ==
  /\ pc = "awaitAttempt2"
  /\ PromptCall(2) \in inflight
  /\ \E outcome \in PromptOutcomes :
       LET log == Append(callLog, Settled(PromptCall(2), OutcomeTag(outcome)))
           error == attempt2Error(llmError, outcome)
       IN  /\ hardFailureReason' = hardFailureAfter(outcome)
           /\ inflight' = inflight \ {PromptCall(2)}
           /\ callLog' = log
           /\ IF outcome.kind = "reject" /\ "runWebLlmPrompt" \notin caughtCalls
              THEN /\ pc' = "threw"
                   /\ UNCHANGED <<mergedActions, llmError, result>>
              ELSE IF Accepted(outcome)
              THEN /\ ReturnRefined(outcome, "llm2", "retry-refined")
                   /\ UNCHANGED llmError
              ELSE /\ ReturnUnrefined(error, "fallback")
                   /\ llmError' = error
  /\ UNCHANGED <<snapshot, context, ruleActions, preResolved, pendingGenerative,
                 generatedCount>>
  /\ UNCHANGED outsidePlan

Next == Start \/ GenerateResolves \/ GenerateRejects \/ Attempt1Settles \/ Attempt2Settles

Spec == Init /\ [][Next]_vars


(***************************************************************************)
(* The functions of the engine applied on their own: one argument list is  *)
(* drawn, the function is applied to it, and probe keeps the result (out   *)
(* is empty before the application and holds the result after it).         *)
(***************************************************************************)
MaxOptions == 2

\* the <option> elements a country <select> may hold, in document order
OptionPool == <<[label |-> "United States", value |-> "US"],
                [label |-> "Canada", value |-> "CA"],
                [label |-> "Other (not Canada)", value |-> "other"],
                [label |-> "Select...", value |-> ""]>>

OptionLists == Subsequences(OptionPool, MaxOptions)

\* free-text values to resolve: a value, aliases, a label, a typo, countries
\* the options may lack, and nothing
RawTargets == {"US", "usa", "United States", "Unted Sates", "Canada", "America",
               "Germany", ""}

\* the controls of the forms handed to the planner alone
SelectFields ==
  {Field("#country", "select", "Country", os, cur) :
     os \in OptionLists, cur \in {"", "CA"}}

TextFields ==
  {Field("#contact", "email", "Email Address", <<>>, ""),
   Field("#contact", "email", "Email Address", <<>>, "x@y.z"),
   Field("#contact", "text", "Email", <<>>, " "),
   Field("#contact", "text", "E-mail", <<>>, ""),
   Field("#contact", "text", "Name and email", <<>>, ""),
   Field("#contact", "tel", "Phone or email", <<>>, ""),
   Field("#contact", "textarea", "Contact email address", <<>>, ""),
   Field("#contact", "text", "Tell us about your email habits", <<>>, "")}

\* forms of one control, with or without navigation targets
SingleFieldSnapshots ==
  {[fields |-> <<[id |-> 1] @@ f>>, navigationTargets |-> nav] :
     f \in SelectFields \cup TextFields, nav \in NavChoices}

\* options of a region <select> that different strategies find for the same
\* target: a label that is another option's value, a label that contains
\* another one, a value that is an alias, and a misspelt label
StageOptionPool == <<[label |-> "CA", value |-> "california"],
                     [label |-> "Canada", value |-> "CA"],
                     [label |-> "North America (Canada)", value |-> "na"],
                     [label |-> "Kanada", value |-> "can"],
                     [label |-> "Canda", value |-> "cnd"]>>

\* the lists of up to MaxOptions of these options, in every order
StageOptionLists ==
  {[k \in DOMAIN order |-> StageOptionPool[order[k]]] :
     order \in {o \in UNION {[1..n -> 1..Len(StageOptionPool)] : n \in 0..MaxOptions} :
                  \A j, k \in DOMAIN o : j # k => o[j] # o[k]}}

StageTargets == {"CA", "Canada", " kanada ", "Canad", "Cnada", "Mexico"}

\* controls whose description matches one hint entry, two, one and the
\* location fallback, the fallback alone, and nothing
HintFields ==
  {Field("#f", "text", "Email", <<>>, ""),
   Field("#f", "text", "Name and email", <<>>, ""),
   Field("#f", "email", "Email Address", <<>>, ""),
   Field("#f", "text", "City / location", <<>>, ""),
   Field("#f", "text", "Current location", <<>>, ""),
   Field("#f", "text", "Favourite colour", <<>>, ""),
   [Field("#f", "text", "", <<>>, "") EXCEPT !.name = "email", !.placeholder = "you@example.com"],
   Field("#f", "text", "", <<>>, "")}

\* profiles with and without a name, an email and the parts of a location
HintContexts ==
  {[profile |-> [EmptyProfile EXCEPT !.fullName = n, !.email = e, !.city = c,
                   !.country = k]] :
     n \in {"", "Ada Lovelace"}, e \in {"", "a@b.com"}, c \in {"", "Austin"},
     k \in {"", "USA"}}

\* checkboxes: one the hint table knows, unchecked and checked, one it does
\* not know, and one whose label asks for prose
CheckboxFields ==
  {Field("#sponsor", "checkbox", "Sponsorship required", <<>>, "false"),
   Field("#sponsor", "checkbox", "Sponsorship required", <<>>, "true"),
   Field("#terms", "checkbox", "I agree to the terms", <<>>, "false"),
   Field("#sponsor", "checkbox", "Tell us about sponsorship", <<>>, "false")}

CheckboxSnapshots ==
  {[fields |-> <<[id |-> 1] @@ f>>, navigationTargets |-> nav] :
     f \in CheckboxFields, nav \in NavChoices}

\* what a profile may say about sponsorship
SponsorshipAnswers == {"Yes", "No", "", "Not required", "TRUE", "1 year", "Maybe"}

CheckboxContexts ==
  {[profile |-> [EmptyProfile EXCEPT !.needsSponsorship = a]] : a \in SponsorshipAnswers}

\* profiles: every country of RawTargets with an email, then no email, then
\* a name next to the email
ProbeContexts ==
  {[profile |-> [EmptyProfile EXCEPT !.email = "a@b.com", !.country = c]] :
     c \in RawTargets}
    \cup {[profile |-> [EmptyProfile EXCEPT !.country = "USA"]],
          [profile |-> [EmptyProfile EXCEPT !.fullName = "Ada Lovelace",
                          !.email = "a@b.com", !.phone = "555-0100"]]}

\* texts a backend may answer with: the bare-key list with a trailing
\* comma, JSON lists (plain, wrapped, fenced, single-quoted, cut short,
\* followed by a stray bracket, empty), objects in prose, an out-of-range
\* confidence, a wrong property type, and no JSON
ResponseTexts ==
  {"[{selector:\"#a\", type:\"setValue\", value:\"x\",}]",
   "[{\"selector\":\"#a\",\"type\":\"setValue\",\"value\":\"x\"}]",
   "{\"actions\":[{\"selector\":\"#a\",\"type\":\"clickNext\",\"confidence\":0.9}]}",
   "Sure:\n~~~json\n[{\"selector\": \"#a\", \"type\": \"setSelect\"}]\n~~~",
   "[{'selector': '#a', 'type': 'setCheckbox', 'value': 'true'}, ]",
   "[{\"selector\":\"#a\",\"type\":\"setValue\"},{\"selector\":\"#b\",\"type\":\"setRadio\"}",
   "[{\"selector\":\"#a\",\"type\":\"setValue\"}]] done",
   "[]",
   "{\"actions\":[]}",
   "Fill {\"selector\": \"#a\", \"type\":\"setValue\"} then {\"selector\":\"\",\"type\":\"setValue\"}",
   "[{\"selector\":\"#a\",\"type\":\"setValue\",\"confidence\":1.5}]",
   "[{\"selector\":\"#a\",\"type\":\"setValue\",\"confidence\":-0.5}]",
   "[{\"selector\":\"#a\",\"type\":\"setValue\",\"value\":3}]",
   "[{selector:\"#a\", type:\"setValue\", value:\"see http://x.y\"}]",
   "I cannot help with that."}

Probe(fn, arg) == [fn |-> fn, arg |-> arg, out |-> <<>>]

\* a form with a text field, a select and a prose field, with and without
\* navigation targets
MergeSnapshots ==
  {[fields |-> [i \in 1..3 |-> [id |-> i] @@ FieldPool[<<1, 3, 6>>[i]]],
    navigationTargets |-> nav] : nav \in NavChoices}

MergeContext ==
  [profile |-> [EmptyProfile EXCEPT !.fullName = "Ada Lovelace", !.email = "a@b.com",
                  !.country = "Canada"]]

\* the merge map before the first backend call (lines 646-662): the
\* rule-based and pre-resolved actions, and the prose generated for "#cover"
SeedMaps(snap) ==
  {LET seed == seedMergedActions(buildRuleBasedPlan(snap, MergeContext, rnd),
                                 preResolveSelectFields(snap, MergeContext))
   IN  IF content = "" THEN seed
       ELSE mapSet(seed, snap.fields[3].selector, generatedAction(snap, 3, content)) :
     rnd \in RandomSequences(4), content \in GeneratedContents}

LlmAction(selector, type, value, confidence) ==
  [selector |-> selector, type |-> type, fieldLabel |-> "", value |-> value,
   reasoning |-> "", confidence |-> confidence]

\* actions the schema accepts: two for the text field, one for the prose
\* field, two for a select (one that no option matches), a click on a
\* navigation target and a value for a selector outside the snapshot
LlmActionPool ==
  {LlmAction("#email", "setValue", "first@llm.io", 9000),
   LlmAction("#email", "setCheckbox", "second@llm.io", 3000),
   LlmAction("#cover", "setValue", "Dear team", 6000),
   LlmAction("#country", "setSelect", "usa", 8000),
   LlmAction("#country", "setSelect", "Mars", 8000),
   LlmAction("#next", "clickNext", "", 5000),
   LlmAction(FOREIGN_SELECTOR, "setValue", "x", 6000)}

\* the non-empty lists an accepted attempt may have parsed
ParsedLists == UNION {[1..n -> LlmActionPool] : n \in 1..MaxLlmActions}

Probes ==
  {Probe("pickOptionValue",
         [field |-> Field("#country", "select", "Country", os, ""), rawTarget |-> t]) :
     os \in OptionLists, t \in RawTargets}
    \cup {Probe("pickOptionValue",
                [field |-> Field("#region", "select", "Region", os, ""), rawTarget |-> t]) :
            os \in StageOptionLists, t \in StageTargets}
    \cup {Probe("findProfileValueForField", [field |-> f, context |-> cx]) :
            f \in HintFields, cx \in HintContexts}
    \cup {Probe("buildRuleBasedPlan", [snapshot |-> sn, context |-> cx, rnd |-> rnd]) :
            sn \in SingleFieldSnapshots, cx \in ProbeContexts, rnd \in RandomSequences(2)}
    \cup {Probe("buildRuleBasedPlan", [snapshot |-> sn, context |-> cx, rnd |-> rnd]) :
            sn \in CheckboxSnapshots, cx \in CheckboxContexts, rnd \in RandomSequences(2)}
    \cup {Probe("preResolveSelectFields", [snapshot |-> sn, context |-> cx]) :
            sn \in SingleFieldSnapshots, cx \in ProbeContexts}
    \cup {Probe("tryParseActions", [raw |-> t]) : t \in ResponseTexts}
    \cup UNION {{Probe("mergeLlmActions",
                       [snapshot |-> sn, mergedActions |-> seed, parsed |-> list]) :
                   seed \in SeedMaps(sn), list \in ParsedLists} :
                 sn \in MergeSnapshots}

\* no invocation of buildActionPlan is under way
PlanIdle ==
  /\ snapshot = [fields |-> <<>>, navigationTargets |-> <<>>]
  /\ context = [profile |-> EmptyProfile]
  /\ pc = "idle"
  /\ ruleActions = <<>>
  /\ preResolved = <<>>
  /\ mergedActions = <<>>
  /\ pendingGenerative = <<>>
  /\ generatedCount = 0
  /\ llmError = ""
  /\ result = NoResult
  /\ inflight = {}
  /\ callLog = <<>>
  /\ hardFailureReason = ""

FunctionInit ==
  /\ PlanIdle
  /\ probe \in Probes
  /\ PanelUnmounted
  /\ EngineIdle

Applied == probe.out # <<>>

ApplyPickOptionValue ==
  /\ probe.fn = "pickOptionValue"
  /\ ~Applied
  /\ probe' = [probe EXCEPT
                 !.out = <<pickOptionValue(probe.arg.field, probe.arg.rawTarget)>>]
  /\ UNCHANGED <<planVars, panelVars, engineVars>>

ApplyFindProfileValueForField ==
  /\ probe.fn = "findProfileValueForField"
  /\ ~Applied
  /\ probe' = [probe EXCEPT
                 !.out = <<findProfileValueForField(probe.arg.field, probe.arg.context)>>]
  /\ UNCHANGED <<planVars, panelVars, engineVars>>

ApplyBuildRuleBasedPlan ==
  /\ probe.fn = "buildRuleBasedPlan"
  /\ ~Applied
  /\ probe' = [probe EXCEPT
                 !.out = <<buildRuleBasedPlan(probe.arg.snapshot, probe.arg.context,
                                              probe.arg.rnd)>>]
  /\ UNCHANGED <<planVars, panelVars, engineVars>>

ApplyPreResolveSelectFields ==
  /\ probe.fn = "preResolveSelectFields"
  /\ ~Applied
  /\ probe' = [probe EXCEPT
                 !.out = <<preResolveSelectFields(probe.arg.snapshot, probe.arg.context)>>]
  /\ UNCHANGED <<planVars, panelVars, engineVars>>

ApplyTryParseActions ==
  /\ probe.fn = "tryParseActions"
  /\ ~Applied
  /\ probe' = [probe EXCEPT !.out = <<tryParseActionsOfText(probe.arg.raw)>>]
  /\ UNCHANGED <<planVars, panelVars, engineVars>>

\* the return of an accepted attempt (lines 671-679): the merge, the
\* navigation action and the sort
ApplyMergeLlmActions ==
  /\ probe.fn = "mergeLlmActions"
  /\ ~Applied
  /\ LET merged == mergeLlmActions(probe.arg.parsed, probe.arg.snapshot,
                                   allowedSelectorsOf(probe.arg.snapshot),
                                   probe.arg.mergedActions, "llm1")
         final == appendNavAction(probe.arg.snapshot, merged.map, 1)
     IN  probe' = [probe EXCEPT !.out = <<[llmCount |-> merged.count,
                                           actions |-> sortActions(mapValues(final))]>>]
  /\ UNCHANGED <<planVars, panelVars, engineVars>>

FunctionNext ==
  \/ ApplyPickOptionValue
  \/ ApplyFindProfileValueForField
  \/ ApplyBuildRuleBasedPlan
  \/ ApplyPreResolveSelectFields
  \/ ApplyTryParseActions
  \/ ApplyMergeLlmActions

FunctionSpec == FunctionInit /\ [][FunctionNext]_vars

(***************************************************************************)
(* The overlay component FloatingMenu (src/src/contents/form-agent.tsx).   *)
(* One step is one task of the page's event loop: a click, a timer, the    *)
(* settlement of an awaited call, together with the renders and effects    *)
(* that follow from its state updates.  A handler reads the state of the   *)
(* render it was created in, which is the state at the start of the step.  *)
(***************************************************************************)
FALLBACK_DEMO_WHITELIST == <<"*">>

MIN_FILLABLE_FIELDS == 2

\* the threshold of "Approve all" when auto-execution is off (0.9)
APPROVE_ALL_THRESHOLD == 9000

MaxQueue == 2
MaxPlansInFlight == 1
MaxOrphanTimers == 0

endsWith(s, t) == Len(t) <= Len(s) /\ SubSeq(s, Len(s) - Len(t) + 1, Len(s)) = t

normalizeHostname(name) ==
  LET lowered == toLowerCase(trim(name))
      first == skipClass(lowered, 1, {"."})
      last == skipBack(lowered, Len(lowered), {"."})
  IN  IF first > last THEN "" ELSE SubSeq(lowered, first, last)

isWhitelistedHost(host, list) ==
  LET normalizedHost == normalizeHostname(host)
  IN  /\ normalizedHost # ""
      /\ \E i \in DOMAIN list :
           LET normalizedEntry == normalizeHostname(list[i])
           IN  \/ normalizedEntry = "*"
               \/ normalizedHost = normalizedEntry
               \/ endsWith(normalizedHost, "." \o normalizedEntry)

Hostnames == {"Acme.MyWorkdayJobs.com", "notmyworkdayjobs.com"}

StoredWhitelists == {DEFAULT_WHITELIST, FALLBACK_DEMO_WHITELIST}

\* the options of the threshold select: Off and 90% (80%, 95% and 100% behave
\* as 90% does against the confidences below)
Thresholds == {0, 9000}

Agencies ==
  [autoCapture : BOOLEAN, autoPlan : BOOLEAN, autoExecuteThreshold : Thresholds]

Confidences == {6000, 9500}

\* the actions of a PlanResult, identified by their place in the plan
PlannedQueues ==
  UNION {{[i \in 1..n |-> [id |-> i, confidence |-> cs[i]]] : cs \in [1..n -> Confidences]} :
           n \in 0..MaxQueue}

NoAction == [id |-> 0, confidence |-> 0]

nextAction(list, index) ==
  IF index < 0 \/ index >= Len(list) THEN NoAction ELSE list[index + 1]

currentAction == nextAction(actionQueue, currentActionIndex)

outsidePanel == <<planVars, probe, hostname, storedWhitelist, engineVars>>

\* the state after the first render and its effects: hydrate is awaiting
\* storage, and the auto-capture effect has passed its guard (isWhitelisted
\* and DEFAULT_AGENCY.autoCapture are true), observes the document and has
\* called debouncedCapture once
PanelInit ==
  /\ PlanIdle
  /\ probe = NoProbe
  /\ EngineIdle
  /\ hostname \in Hostnames
  /\ storedWhitelist \in StoredWhitelists
  /\ hydration = "pending"
  /\ InitialRender
  /\ observing = TRUE
  /\ timer = TRUE
  /\ orphanTimers = 0

\* the auto-execute effect after a render: while it is on, nothing is busy or
\* stopped and the current action reaches the threshold, handleApproveStep
\* runs the current action and moves to the next.  The index it stops at.
autoExecuteEnd(list, index, settings, stopped, busy) ==
  IF settings.autoExecuteThreshold > 0 /\ ~stopped /\ ~busy
  THEN CHOOSE j \in index..Max(index, Len(list)) :
         /\ j >= Len(list) \/ list[j + 1].confidence < settings.autoExecuteThreshold
         /\ \A k \in index..(j - 1) :
              list[k + 1].confidence >= settings.autoExecuteThreshold
  ELSE index

Call(action, by) == [action |-> action.id, by |-> by]

\* the renders after a step whose handlers left the index at index and made
\* the calls in called
AutoExecuteEffect(index, called) ==
  LET end == autoExecuteEnd(actionQueue', index, agency', isStopped', isBusy')
  IN  /\ currentActionIndex' = end
      /\ ran' = called \o [k \in 1..(end - index) |->
                             Call(actionQueue'[index + k], "autoExecute")]

\* the auto-capture effect after a render: when one of its dependencies
\* changed, the cleanup of the mounted effect runs (it leaves a pending
\* debounce timer pending) and the effect runs again
AutoCaptureEffect ==
  IF isWhitelisted' = isWhitelisted /\ agency'.autoCapture = agency.autoCapture
  THEN UNCHANGED <<observing, timer, orphanTimers>>
  ELSE /\ orphanTimers' = IF timer THEN orphanTimers + 1 ELSE orphanTimers
       /\ observing' = (isWhitelisted' /\ agency'.autoCapture)
       /\ timer' = (isWhitelisted' /\ agency'.autoCapture)

HydrateResolves ==
  /\ hydration = "pending"
  /\ \E storedAgency \in Agencies : agency' = storedAgency
  /\ hydration' = "resolved"
  /\ whitelist' = storedWhitelist
  /\ isWhitelisted' = (Len(storedWhitelist) = 0
                         \/ isWhitelistedHost(hostname, storedWhitelist))
  /\ UNCHANGED <<capturedSnapshot, actionQueue, isBusy, isStopped, planning,
                 stopPending, outsidePanel>>
  /\ AutoCaptureEffect
  /\ AutoExecuteEffect(currentActionIndex, <<>>)

HydrateRejects ==
  /\ hydration = "pending"
  /\ hydration' = "rejected"
  /\ ran' = <<>>
  /\ UNCHANGED <<isWhitelisted, whitelist, agency, capturedSnapshot, actionQueue,
                 currentActionIndex, isBusy, isStopped, observing, timer,
                 orphanTimers, planning, stopPending, outsidePanel>>

\* withBusyState around the task of handlePlanActions, up to its first await
\* that leaves the step
StartsPlan == agency.autoPlan /\ ~isBusy

\* onFormCaptured; a manual capture runs inside handleExtractForm's own
\* withBusyState, whose finally sets isBusy to false after the plan started
OnFormCaptured(source) ==
  /\ capturedSnapshot' = source
  /\ IF StartsPlan
     THEN /\ planning < MaxPlansInFlight
          /\ planning' = planning + 1
          /\ isBusy' = (source = "auto")
     ELSE /\ planning' = planning
          /\ isBusy' = isBusy

\* tryAutoCapture on a page with emptyCount unfilled fields; inCooldown is
\* whether the effect captured the same url and field count less than
\* CAPTURE_COOLDOWN_MS ago
TryAutoCapture(emptyCount, inCooldown) ==
  IF emptyCount < MIN_FILLABLE_FIELDS \/ inCooldown
  THEN UNCHANGED <<capturedSnapshot, planning, isBusy>>
  ELSE OnFormCaptured("auto")

\* the MutationObserver, popstate or history hook of the mounted effect
DomMutation ==
  /\ observing
  /\ timer' = TRUE
  /\ ran' = <<>>
  /\ UNCHANGED <<hydration, isWhitelisted, whitelist, agency, capturedSnapshot,
                 actionQueue, currentActionIndex, isBusy, isStopped, observing,
                 orphanTimers, planning, stopPending, outsidePanel>>

TimerFires ==
  /\ timer
  /\ timer' = FALSE
  /\ \E emptyCount \in 0..MIN_FILLABLE_FIELDS, inCooldown \in BOOLEAN :
       TryAutoCapture(emptyCount, inCooldown)
  /\ UNCHANGED <<hydration, isWhitelisted, whitelist, agency, actionQueue,
                 isStopped, observing, orphanTimers, stopPending, outsidePanel>>
  /\ AutoExecuteEffect(currentActionIndex, <<>>)

\* the timer of an effect whose cleanup has run
OrphanTimerFires ==
  /\ orphanTimers > 0
  /\ orphanTimers' = orphanTimers - 1
  /\ \E emptyCount \in 0..MIN_FILLABLE_FIELDS, inCooldown \in BOOLEAN :
       TryAutoCapture(emptyCount, inCooldown)
  /\ UNCHANGED <<hydration, isWhitelisted, whitelist, agency, actionQueue,
                 isStopped, observing, timer, stopPending,
                 outsidePanel>>
  /\ AutoExecuteEffect(currentActionIndex, <<>>)

\* the component renders its buttons only when isWhitelisted
Rendered == isWhitelisted

ClickExtract ==
  /\ Rendered
  /\ ~isBusy
  /\ IF isWhitelistedHost(hostname, whitelist)
     THEN OnFormCaptured("manual")
     ELSE UNCHANGED <<capturedSnapshot, planning, isBusy>>
  /\ UNCHANGED <<hydration, isWhitelisted, whitelist, agency, actionQueue,
                 isStopped, observing, timer, orphanTimers,
                 stopPending, outsidePanel>>
  /\ AutoExecuteEffect(currentActionIndex, <<>>)

ClickPlan ==
  /\ Rendered
  /\ ~isBusy
  /\ capturedSnapshot # "null"
  /\ planning < MaxPlansInFlight
  /\ planning' = planning + 1
  /\ isBusy' = TRUE
  /\ ran' = <<>>
  /\ UNCHANGED <<hydration, isWhitelisted, whitelist, agency, capturedSnapshot,
                 actionQueue, currentActionIndex, isStopped, observing, timer,
                 orphanTimers, stopPending, outsidePanel>>

\* buildActionPlan settles inside handlePlanActions
PlanResolves ==
  /\ planning > 0
  /\ planning' = planning - 1
  /\ \E planned \in PlannedQueues : actionQueue' = planned
  /\ isStopped' = FALSE
  /\ isBusy' = FALSE
  /\ UNCHANGED <<hydration, isWhitelisted, whitelist, agency, capturedSnapshot,
                 observing, timer, orphanTimers, stopPending,
                 outsidePanel>>
  /\ AutoExecuteEffect(0, <<>>)

\* loadAgentContext or buildActionPlan rejects: only the finally runs
PlanRejects ==
  /\ planning > 0
  /\ planning' = planning - 1
  /\ isBusy' = FALSE
  /\ UNCHANGED <<hydration, isWhitelisted, whitelist, agency, capturedSnapshot,
                 actionQueue, isStopped, observing, timer, orphanTimers, stopPending, outsidePanel>>
  /\ AutoExecuteEffect(currentActionIndex, <<>>)

ClickApprove ==
  /\ Rendered
  /\ ~isBusy /\ currentAction # NoAction /\ ~isStopped
  /\ UNCHANGED <<hydration, isWhitelisted, whitelist, agency, capturedSnapshot,
                 actionQueue, isBusy, isStopped, observing, timer, orphanTimers, planning, stopPending, outsidePanel>>
  /\ AutoExecuteEffect(currentActionIndex + 1, <<Call(currentAction, "Approve")>>)

ClickSkip ==
  /\ Rendered
  /\ ~isBusy /\ currentAction # NoAction
  /\ UNCHANGED <<hydration, isWhitelisted, whitelist, agency, capturedSnapshot,
                 actionQueue, isBusy, isStopped, observing, timer, orphanTimers, planning, stopPending, outsidePanel>>
  /\ AutoExecuteEffect(currentActionIndex + 1, <<>>)

ClickStop ==
  /\ Rendered
  /\ currentAction # NoAction
  /\ isStopped' = TRUE
  /\ stopPending' = TRUE
  /\ ran' = <<>>
  /\ UNCHANGED <<hydration, isWhitelisted, whitelist, agency, capturedSnapshot,
                 actionQueue, currentActionIndex, isBusy, observing, timer,
                 orphanTimers, planning, outsidePanel>>

ClickReset ==
  /\ Rendered
  /\ actionQueue' = <<>>
  /\ currentActionIndex' = 0
  /\ isStopped' = FALSE
  /\ stopPending' = FALSE
  /\ ran' = <<>>
  /\ UNCHANGED <<hydration, isWhitelisted, whitelist, agency, capturedSnapshot,
                 isBusy, observing, timer, orphanTimers, planning,
                 outsidePanel>>

\* handleApproveAllAboveThreshold
ClickApproveAll ==
  /\ Rendered
  /\ ~isBusy /\ Len(actionQueue) > 0 /\ ~isStopped
  /\ UNCHANGED <<hydration, isWhitelisted, whitelist, agency, capturedSnapshot,
                 actionQueue, isBusy, isStopped, observing, timer, orphanTimers, planning, stopPending, outsidePanel>>
  /\ LET threshold == IF agency.autoExecuteThreshold > 0
                      THEN agency.autoExecuteThreshold ELSE APPROVE_ALL_THRESHOLD
         aboveThreshold(a) == a.confidence >= threshold
         remainder == SubSeq(actionQueue, currentActionIndex + 1, Len(actionQueue))
         toApprove == SelectSeq(remainder, aboveThreshold)
         findIndex(a) == (CHOOSE i \in DOMAIN actionQueue : actionQueue[i].id = a.id) - 1
     IN  IF Len(toApprove) = 0
         THEN AutoExecuteEffect(currentActionIndex, <<>>)
         ELSE AutoExecuteEffect(findIndex(toApprove[Len(toApprove)]) + 1,
                                [k \in DOMAIN toApprove |-> Call(toApprove[k], "ApproveAll")])

\* one control of the Agency section changes one setting
ChangeAgency ==
  /\ Rendered
  /\ \E settings \in Agencies :
       /\ Cardinality({k \in DOMAIN agency : settings[k] # agency[k]}) = 1
       /\ (settings.autoCapture # agency.autoCapture /\ timer)
            => orphanTimers <= MaxOrphanTimers
       /\ agency' = settings
  /\ UNCHANGED <<hydration, isWhitelisted, whitelist, capturedSnapshot,
                 actionQueue, isBusy, isStopped, planning, stopPending,
                 outsidePanel>>
  /\ AutoCaptureEffect
  /\ AutoExecuteEffect(currentActionIndex, <<>>)

PanelNext ==
  \/ HydrateResolves
  \/ HydrateRejects
  \/ DomMutation
  \/ TimerFires
  \/ OrphanTimerFires
  \/ ClickExtract
  \/ ClickPlan
  \/ PlanResolves
  \/ PlanRejects
  \/ ClickApprove
  \/ ClickSkip
  \/ ClickStop
  \/ ClickReset
  \/ ClickApproveAll
  \/ ChangeAgency

PanelSpec == PanelInit /\ [][PanelNext]_vars

\* end of the overlay component

(***************************************************************************)
(* The engine module src/src/lib/webllm.ts: its module variables and the   *)
(* exported functions setPreferredModel, warmupWebLlm, runWebLlmPrompt and *)
(* runWebLlmTextGeneration, called in any order while loads and            *)
(* completions are in flight.  A step is one call up to its first await,   *)
(* or the settlement of a CreateMLCEngine promise with the then or catch   *)
(* handler and the continuations of the calls awaiting it, or the          *)
(* settlement of a completion.                                             *)
(***************************************************************************)
MaxLoadsInFlight == 2
MaxPendingCalls == 2

\* prebuiltAppConfig.model_list of the engine library, cut down to two
\* models; the first entry matches no hint of MODEL_HINTS
MODEL_LIST ==
  <<[model_id |-> "Llama-3.2-1B-Instruct-q4f16_1-MLC", low_resource_required |-> TRUE],
    [model_id |-> "SmolLM2-360M-Instruct-q4f16_1-MLC", low_resource_required |-> TRUE]>>

MODEL_HINTS == <<"smollm2-360m", "smollm2-1.7b", "qwen2.5-1.5b", "qwen2.5-0.5b">>

\* prebuiltAppConfig.model_list.map((model) => model.model_id)
allModels == [i \in 1..Len(MODEL_LIST) |-> MODEL_LIST[i].model_id]

\* the model ids a caller may pass: the listed ones and one that is not
ModelIds == {allModels[i] : i \in 1..Len(allModels)} \cup {"gpt-x"}

\* whether the id is in the list: allModels.includes(id)
isAvailable(id) == \E i \in 1..Len(allModels) : allModels[i] = id

\* the first model whose lower-cased id contains the hint, 0 for none
hintMatch(hint) ==
  firstHit([i \in 1..Len(allModels) |-> includes(toLowerCase(allModels[i]), hint)])

\* the loop over MODEL_HINTS from hint k on (lines 75-82)
RECURSIVE firstHintedModel(_)
firstHintedModel(k) ==
  IF k > Len(MODEL_HINTS) THEN ""
  ELSE IF hintMatch(MODEL_HINTS[k]) # 0 THEN allModels[hintMatch(MODEL_HINTS[k])]
  ELSE firstHintedModel(k + 1)

chooseModelId(override) ==
  IF override # "" /\ isAvailable(override) THEN override
  ELSE IF firstHintedModel(1) # "" THEN firstHintedModel(1)
  ELSE IF \E i \in 1..Len(MODEL_LIST) : MODEL_LIST[i].low_resource_required
       THEN MODEL_LIST[firstHit([i \in 1..Len(MODEL_LIST) |->
                                   MODEL_LIST[i].low_resource_required])].model_id
  ELSE allModels[1]

\* a CreateMLCEngine call in flight
Load(id, modelId) == [id |-> id, modelId |-> modelId]

\* a call of an exported function that has not settled: it awaits the load
\* (stage "load") or the completion on the engine it got (stage
\* "completion", model: the currentModelId passed to the engine);
\* preferred is the userModelOverride at the time of the call
PendingCall(fn, stage, load, eng, model, preferred) ==
  [fn |-> fn, stage |-> stage, load |-> load, engine |-> eng, model |-> model,
   preferred |-> preferred]

\* what warmupWebLlm gave a caller: an engine
Return(fn, preferred, eng) == [fn |-> fn, preferred |-> preferred, engine |-> eng]

Event(op, arg, started, rejected, returned) ==
  [op |-> op, arg |-> arg, started |-> started, rejected |-> rejected,
   returned |-> returned]

outsideEngine ==
  <<snapshot, context, pc, ruleActions, preResolved, mergedActions, pendingGenerative,
    generatedCount, llmError, result, inflight, callLog, probe, panelVars>>

EngineInit ==
  /\ PlanIdle
  /\ probe = NoProbe
  /\ PanelUnmounted
  /\ EngineNotLoaded
  /\ gpu \in BOOLEAN
  /\ loads = {}
  /\ pendingCalls = {}
  /\ lastEvent = NoEvent

\* setPreferredModel with its reset done on every call
SetPreferredModelAlwaysResets ==
  \E modelId \in ModelIds :
    /\ engine' = NoEngine
    /\ pendingLoad' = NoLoad
    /\ hardFailureReason' = ""
    /\ status' = [state |-> "idle", detail |-> "Model changed, needs reload",
                  modelId |-> ""]
    /\ userModelOverride' = modelId
    /\ lastEvent' = Event("setPreferredModel", modelId, FALSE, {}, {})
    /\ UNCHANGED <<currentModelId, gpu, loads, pendingCalls, outsideEngine>>

\* setPreferredModel (lines 54-62)
SetPreferredModel ==
  \E modelId \in ModelIds :
    /\ IF engine # NoEngine /\ currentModelId # modelId
       THEN /\ engine' = NoEngine
            /\ pendingLoad' = NoLoad
            /\ hardFailureReason' = ""
            /\ status' = [state |-> "idle", detail |-> "Model changed, needs reload",
                          modelId |-> ""]
       ELSE UNCHANGED <<engine, pendingLoad, hardFailureReason, status>>
    /\ userModelOverride' = modelId
    /\ lastEvent' = Event("setPreferredModel", modelId, FALSE, {}, {})
    /\ UNCHANGED <<currentModelId, gpu, loads, pendingCalls, outsideEngine>>

\* the id of the next CreateMLCEngine call
freeLoadId == CHOOSE id \in 1..(Cardinality(loads) + 1) : \A l \in loads : l.id # id

\* the promise kept although a load is pending: none
noPendingLoad(kept) == NoLoad

\* if (pendingLoad) return pendingLoad (lines 128-130): the promise kept
keptPendingLoad(kept) == kept

\* warmupWebLlm up to its return (lines 107-182): what the caller gets
\* (outcome "throws", "engine" or "pending") and the module state after it
warmupWebLlm ==
  IF hardFailureReason # ""
  THEN [outcome |-> "throws", status |-> status, currentModelId |-> currentModelId,
        pendingLoad |-> pendingLoad, loads |-> loads, started |-> FALSE]
  ELSE IF ~gpu
  THEN [outcome |-> "throws",
        status |-> [state |-> "error", detail |-> NO_WEBGPU_DETAIL, modelId |-> ""],
        currentModelId |-> currentModelId, pendingLoad |-> pendingLoad, loads |-> loads,
        started |-> FALSE]
  ELSE IF engine # NoEngine
  THEN [outcome |-> "engine", status |-> status, currentModelId |-> currentModelId,
        pendingLoad |-> pendingLoad, loads |-> loads, started |-> FALSE]
  ELSE IF keptPendingLoad(pendingLoad) # NoLoad
  THEN [outcome |-> "pending", status |-> status, currentModelId |-> currentModelId,
        pendingLoad |-> pendingLoad, loads |-> loads, started |-> FALSE]
  ELSE LET modelId == chooseModelId(userModelOverride)
       IN  [outcome |-> "pending",
            status |-> [state |-> "loading", detail |-> "Starting local model load",
                        modelId |-> modelId],
            currentModelId |-> modelId,
            pendingLoad |-> freeLoadId,
            loads |-> loads \cup {Load(freeLoadId, modelId)},
            started |-> TRUE]

ExportedFunctions == {"warmupWebLlm", "runWebLlmPrompt", "runWebLlmTextGeneration"}

\* a call of warmupWebLlm, or of runWebLlmPrompt or runWebLlmTextGeneration
\* up to the await of warmupWebLlm and, with an engine at hand, up to the
\* await of the completion (lines 203-209, 228-230)
CallExported(fn) ==
  /\ Cardinality(pendingCalls) < MaxPendingCalls
  /\ LET w == warmupWebLlm
     IN  /\ Cardinality(w.loads) <= MaxLoadsInFlight
         /\ status' = w.status
         /\ currentModelId' = w.currentModelId
         /\ pendingLoad' = w.pendingLoad
         /\ loads' = w.loads
         /\ pendingCalls' =
              IF w.outcome = "pending"
              THEN pendingCalls \cup {PendingCall(fn, "load", w.pendingLoad, NoEngine, "",
                                                  userModelOverride)}
              ELSE IF w.outcome = "engine" /\ fn # "warmupWebLlm"
              THEN pendingCalls \cup {PendingCall(fn, "completion", NoLoad, engine,
                                                  currentModelId, userModelOverride)}
              ELSE pendingCalls
         /\ lastEvent' =
              Event(fn, "", w.started,
                    IF w.outcome = "throws" THEN {fn} ELSE {},
                    IF w.outcome = "engine"
                    THEN {Return(fn, userModelOverride, engine)} ELSE {})
  /\ UNCHANGED <<engine, userModelOverride, hardFailureReason, gpu, outsideEngine>>

CallWarmupWebLlm == CallExported("warmupWebLlm")

CallRunWebLlmPrompt == CallExported("runWebLlmPrompt")

CallRunWebLlmTextGeneration == CallExported("runWebLlmTextGeneration")

\* the calls awaiting the promise of the load
awaiting(l) == {c \in pendingCalls : c.stage = "load" /\ c.load = l.id}

\* CreateMLCEngine resolves: the then handler (lines 147-157), and the
\* calls awaiting the promise go on with the loaded engine
LoadResolves ==
  \E l \in loads :
    LET loadedEngine == [load |-> l.id, modelId |-> l.modelId]
    IN  /\ engine' = loadedEngine
        /\ status' = [state |-> "ready", detail |-> "Loaded " \o l.modelId,
                      modelId |-> l.modelId]
        /\ pendingLoad' = NoLoad
        /\ loads' = loads \ {l}
        /\ pendingCalls' =
             (pendingCalls \ awaiting(l))
               \cup {PendingCall(c.fn, "completion", NoLoad, loadedEngine, currentModelId,
                                 c.preferred) :
                       c \in {d \in awaiting(l) : d.fn # "warmupWebLlm"}}
        /\ lastEvent' =
             Event("loadResolved", l.modelId, FALSE, {},
                   {Return(c.fn, c.preferred, loadedEngine) : c \in awaiting(l)})
        /\ UNCHANGED <<currentModelId, userModelOverride, hardFailureReason, gpu,
                       outsideEngine>>

\* the rejections of CreateMLCEngine: a WebAssembly or compile failure
\* (isWebAssemblyFailure, lines 160-162) or another error
LoadErrors ==
  {[isWebAssemblyFailure |-> TRUE, message |-> "WebAssembly.instantiate(): out of memory"],
   [isWebAssemblyFailure |-> FALSE, message |-> "Failed to fetch"]}

\* CreateMLCEngine rejects: the catch handler (lines 158-179), and the
\* calls awaiting the promise reject
LoadRejects ==
  \E l \in loads, error \in LoadErrors :
    /\ hardFailureReason' = IF error.isWebAssemblyFailure THEN HARD_FAILURE_REASON
                            ELSE hardFailureReason
    /\ pendingLoad' = NoLoad
    /\ status' = [state |-> IF error.isWebAssemblyFailure THEN "rule-based" ELSE "error",
                  detail |-> IF hardFailureReason' # "" THEN hardFailureReason'
                             ELSE error.message,
                  modelId |-> l.modelId]
    /\ loads' = loads \ {l}
    /\ pendingCalls' = pendingCalls \ awaiting(l)
    /\ lastEvent' = Event("loadRejected", l.modelId, FALSE,
                          {c.fn : c \in awaiting(l)}, {})
    /\ UNCHANGED <<engine, currentModelId, userModelOverride, gpu, outsideEngine>>

\* loadedEngine.chat.completions.create settles, with a text or an error
CompletionSettles ==
  \E c \in {d \in pendingCalls : d.stage = "completion"}, ok \in BOOLEAN :
    /\ pendingCalls' = pendingCalls \ {c}
    /\ lastEvent' = Event("completionSettled", c.model, FALSE,
                          IF ok THEN {} ELSE {c.fn}, {})
    /\ UNCHANGED <<engine, pendingLoad, currentModelId, userModelOverride, status,
                   hardFailureReason, gpu, loads, outsideEngine>>

EngineNext ==
  \/ SetPreferredModel
  \/ CallWarmupWebLlm
  \/ CallRunWebLlmPrompt
  \/ CallRunWebLlmTextGeneration
  \/ LoadResolves
  \/ LoadRejects
  \/ CompletionSettles

EngineSpec == EngineInit /\ [][EngineNext]_vars

\* end of the engine module

(***************************************************************************)
(* Properties of buildActionPlan.                                          *)
(***************************************************************************)
Returned == pc = "done"

planActions == result.actions

snapshotSelectors ==
  {snapshot.fields[i].selector : i \in 1..Len(snapshot.fields)}
    \cup {snapshot.navigationTargets[i].selector :
            i \in 1..Len(snapshot.navigationTargets)}

\* whether the log holds the event
Logged(e) == \E i \in 1..Len(callLog) : callLog[i] = e

\* the actions of the plan that a backend response put there
backendActions ==
  {i \in 1..Len(planActions) : planActions[i].id.by \in {"llm1", "llm2"}}

\* C1: every action of a returned plan has the selector of a field or of a
\* navigation target of the input snapshot, whatever the backend answered
C1_SelectorsFromSnapshot ==
  Returned =>
    \A i \in 1..Len(planActions) : planActions[i].selector \in snapshotSelectors

\* an attempt was accepted and none of its actions was merged, in a snapshot
\* where only a selector outside the snapshot explains it
C1_Witness ==
  /\ Returned
  /\ result.llmDetail.kind \in {"refined", "retry-refined"}
  /\ result.llmDetail.llmCount = 0
  /\ Len(snapshot.navigationTargets) = 0
  /\ Len(snapshot.fields) > 0
  /\ \A i \in 1..Len(snapshot.fields) : snapshot.fields[i].kind # "select"
  /\ Len(planActions) > 0

\* an upper bound on the steps buildActionPlan has left
stepsLeft ==
  CASE pc = "start" -> Len(snapshot.fields) + 3
    [] pc = "awaitGenerate" -> Len(pendingGenerative) + 2
    [] pc = "awaitAttempt1" -> 2
    [] pc = "awaitAttempt2" -> 1
    [] OTHER -> 0

\* buildActionPlan is suspended on a call that is outstanding: the call's
\* settlement resumes it
awaitsOutstandingCall ==
  \/ pc = "start"
  \/ /\ pc = "awaitGenerate"
     /\ Len(pendingGenerative) > 0
     /\ GenerateCall(Head(pendingGenerative)) \in inflight
  \/ pc = "awaitAttempt1" /\ PromptCall(1) \in inflight
  \/ pc = "awaitAttempt2" /\ PromptCall(2) \in inflight

\* C2: buildActionPlan never lets an exception out and always comes to
\* return a PlanResult, whatever the backend and the generation calls do:
\* no step throws, until the return the function waits for a call that is
\* outstanding, and every step brings the return nearer
C2_AlwaysReturns ==
  /\ [](pc # "threw")
  /\ [](~Returned => awaitsOutstandingCall)
  /\ [](Returned => result.source \in {"rule-based", "hybrid"})
  /\ [][stepsLeft' < stepsLeft]_vars

\* a plan returned after a generation call and both backend calls rejected
C2_Witness ==
  /\ Returned
  /\ \E i \in 1..Len(callLog) :
       /\ callLog[i].event = "settle"
       /\ callLog[i].call.fn = "generateFieldContent"
       /\ callLog[i].outcome = "rejected"
  /\ Logged(Settled(PromptCall(1), "rejected"))
  /\ Logged(Settled(PromptCall(2), "rejected"))

\* the backend call of attempt 1 rejected with a hard-unavailability signal
hardUnavailableOnAttempt1 ==
  \/ Logged(Settled(PromptCall(1), "rejected-hard"))
  \/ Logged(Settled(PromptCall(1), "rejected-unavailable"))

\* C3: after a hard-unavailability rejection of attempt 1 there is no second
\* backend call, no backend action in the plan, and the source is rule-based
\* unless prose was generated
C3_HardFailureSkipsRetry ==
  hardUnavailableOnAttempt1 =>
    /\ ~Logged(Started(PromptCall(2)))
    /\ Returned =>
         /\ backendActions = {}
         /\ result.source = IF generatedCount > 0 THEN "hybrid" ELSE "rule-based"

isFill(a) == a.type \in {"setValue", "setSelect", "setCheckbox", "setRadio"}

\* the place of a selector in the merge map
mapPosition(selector) ==
  CHOOSE k \in 1..Len(mergedActions) : mergedActions[k].key = selector

\* C4: in a returned plan no clickNext comes before a fill action, and
\* actions of the same class keep the order in which their selectors were
\* first inserted into the merge map
C4_FillBeforeClickStable ==
  Returned =>
    /\ Len(planActions) = Len(mergedActions)
    /\ \A i \in 1..Len(planActions) :
         \E k \in 1..Len(mergedActions) : mergedActions[k].value = planActions[i]
    /\ \A i, j \in 1..Len(planActions) :
         i < j =>
           /\ ~(planActions[i].type = "clickNext" /\ isFill(planActions[j]))
           /\ isFill(planActions[i]) = isFill(planActions[j]) =>
                mapPosition(planActions[i].selector) < mapPosition(planActions[j].selector)

\* a plan whose order is not the map's: the sort moved a fill action in
\* front of a clickNext, with two fill actions to keep in order
C4_Witness ==
  /\ Returned
  /\ planActions # mapValues(mergedActions)
  /\ Cardinality({i \in 1..Len(planActions) : isFill(planActions[i])}) >= 2

\* C5: a returned plan holds at most one clickNext action
C5_AtMostOneClickNext ==
  Returned =>
    Cardinality({i \in 1..Len(planActions) : planActions[i].type = "clickNext"}) <= 1

\* C6: no two actions of a returned plan have the same selector
C6_OneActionPerSelector ==
  Returned =>
    \A i, j \in 1..Len(planActions) :
      i # j => planActions[i].selector # planActions[j].selector

\* two snapshot entries share a selector, and the backend's accepted
\* response named it twice
C6_Witness ==
  /\ Returned
  /\ Len(snapshot.fields) = 2
  /\ snapshot.fields[1].selector = snapshot.fields[2].selector
  /\ result.llmDetail.llmCount = 2
  /\ \E i \in 1..Len(planActions) : planActions[i].selector = snapshot.fields[1].selector

\* C7: every action of a returned plan has a confidence in [0, 1]
C7_ConfidenceInUnitInterval ==
  Returned =>
    \A i \in 1..Len(planActions) :
      planActions[i].confidence >= 0 /\ planActions[i].confidence <= CONF_SCALE

\* a plan with a jittered rule-based action, the navigation action and a
\* backend action at the upper bound
C7_Witness ==
  /\ Returned
  /\ \E i \in 1..Len(planActions) : planActions[i].id.by = "rule"
  /\ \E i \in 1..Len(planActions) : planActions[i].id.by = "nav"
  /\ \E i \in backendActions : planActions[i].confidence = CONF_SCALE

\* a meaningful value: 'true' for a checkbox or radio, non-blank otherwise
holdsValue(field) ==
  IF field.kind \in {"checkbox", "radio"}
  THEN field.currentValue = "true"
  ELSE \E k \in 1..Len(field.currentValue) :
         charAt(field.currentValue, k) \notin {" ", "\t", "\n", "\r", "\f"}

\* C8: buildRuleBasedPlan emits no fill action for a field that holds a
\* meaningful value (field i's action has the id NewId("rule", i))
C8_RulePlanSkipsFilledFields ==
  pc # "start" =>
    \A i \in 1..Len(snapshot.fields) :
      holdsValue(snapshot.fields[i]) =>
        \A k \in 1..Len(ruleActions) : ruleActions[k].id # NewId("rule", i)

\* the rule-based plan was built for a filled field whose profile value
\* resolves, next to a blank field that got its action
C8_Witness ==
  /\ pc # "start"
  /\ \E i \in 1..Len(snapshot.fields) :
       /\ holdsValue(snapshot.fields[i])
       /\ findProfileValueForField(snapshot.fields[i], context) # ""
  /\ \E k \in 1..Len(ruleActions) : isFill(ruleActions[k])

\* C9: runWebLlmPrompt is called at most twice, and a second time exactly
\* when the first call rejected with a non-hard error or returned text
\* without a validated action
C9_RetryIffSoftFailure ==
  /\ Cardinality({i \in 1..Len(callLog) :
        callLog[i].event = "start" /\ callLog[i].call.fn = "runWebLlmPrompt"}) <= 2
  /\ Logged(Started(PromptCall(2))) <=>
       \/ Logged(Settled(PromptCall(1), "rejected"))
       \/ Logged(Settled(PromptCall(1), "unparseable"))

\* C10: the asynchronous calls are strictly sequential: at most one is
\* outstanding, each starts after the previous one settled, generation
\* comes before attempt 1 and attempt 1 before attempt 2
C10_SequentialCalls ==
  /\ Cardinality(inflight) <= 1
  /\ \A i \in 1..Len(callLog) :
       callLog[i].event = "start" =>
         /\ i > 1 => callLog[i - 1].event = "settle"
         /\ i < Len(callLog) =>
              callLog[i + 1].event = "settle" /\ callLog[i + 1].call = callLog[i].call
  /\ \A i, j \in 1..Len(callLog) :
       i < j =>
         /\ ~(callLog[i].call.fn = "runWebLlmPrompt"
                /\ callLog[j].call.fn = "generateFieldContent")
         /\ ~(callLog[i].call = PromptCall(2) /\ callLog[j].call = PromptCall(1))

\* two generation calls and both backend calls were made and settled
C10_Witness ==
  /\ Returned
  /\ Cardinality({i \in 1..Len(callLog) :
        callLog[i].event = "start" /\ callLog[i].call.fn = "generateFieldContent"}) = 2
  /\ Logged(Settled(PromptCall(2), "parsed"))

(***************************************************************************)
(* Properties of the functions applied on their own.                       *)
(***************************************************************************)
probeFields == probe.arg.snapshot.fields

\* the result of the applied function
probeOut == probe.out[1]

\* whether the applied function emitted an action for field i
emitsFor(i) ==
  IF probe.fn = "buildRuleBasedPlan"
  THEN \E k \in 1..Len(probeOut) : probeOut[k].id = NewId("rule", i)
  ELSE probeOut[i] # <<>>

\* the value the profile holds for field i
profileValueOf(i) == findProfileValueForField(probeFields[i], probe.arg.context)

\* some option's label or value is at least 0.85 similar to the value
reachesSimilarity(field, v) ==
  \E k \in 1..Len(field.options) :
    LET labelScore == jaroWinkler(normalize(v), normalize(field.options[k].label))
        valueScore == jaroWinkler(normalize(v), normalize(field.options[k].value))
    IN  \/ ~fracLess(labelScore[1], labelScore[2], 85, 100)
        \/ ~fracLess(valueScore[1], valueScore[2], 85, 100)

\* x and y name the same country in the synonym table
sameCountry(x, y) ==
  \E e \in 1..Len(COUNTRY_ALIASES) :
    LET names == {COUNTRY_ALIASES[e].canonical}
                   \cup {COUNTRY_ALIASES[e].aliases[a] :
                           a \in 1..Len(COUNTRY_ALIASES[e].aliases)}
    IN  x \in names /\ y \in names

\* some option equals the value, names the same country, or has a label
\* that contains the value or is contained in it
matchesLiterally(field, v) ==
  \E k \in 1..Len(field.options) :
    LET t == normalize(v)
        l == normalize(field.options[k].label)
        w == normalize(field.options[k].value)
    IN  \/ w = t \/ l = t
        \/ sameCountry(t, w) \/ sameCountry(t, l)
        \/ includes(l, t) \/ includes(t, l)

plannerApplied ==
  Applied /\ probe.fn \in {"buildRuleBasedPlan", "preResolveSelectFields"}

\* C11, as stated: for an unfilled select field none of whose options
\* reaches similarity 0.85 against the value the profile resolves to,
\* neither buildRuleBasedPlan nor preResolveSelectFields emits an action
C11_NoActionBelowSimilarity ==
  plannerApplied =>
    \A i \in 1..Len(probeFields) :
      (/\ probeFields[i].kind = "select"
       /\ ~holdsValue(probeFields[i])
       /\ ~reachesSimilarity(probeFields[i], profileValueOf(i)))
        => ~emitsFor(i)

\* C11, amended: for an unfilled select field none of whose options equals
\* the resolved profile value, names the same country as it, has a label
\* containing it or contained in it, or reaches similarity 0.85 against it,
\* neither buildRuleBasedPlan nor preResolveSelectFields emits an action
C11_NoActionWithoutMatch ==
  plannerApplied =>
    \A i \in 1..Len(probeFields) :
      (/\ probeFields[i].kind = "select"
       /\ ~holdsValue(probeFields[i])
       /\ ~matchesLiterally(probeFields[i], profileValueOf(i))
       /\ ~reachesSimilarity(probeFields[i], profileValueOf(i)))
        => ~emitsFor(i)

\* a planner pass was applied to an unfilled select with options and a
\* resolved profile value that matches none of them, and emitted nothing
C11_Witness ==
  /\ plannerApplied
  /\ probe.fn = "preResolveSelectFields"
  /\ probeFields[1].kind = "select"
  /\ ~holdsValue(probeFields[1])
  /\ Len(probeFields[1].options) = 2
  /\ profileValueOf(1) # ""
  /\ ~matchesLiterally(probeFields[1], profileValueOf(1))
  /\ ~reachesSimilarity(probeFields[1], profileValueOf(1))
  /\ ~emitsFor(1)

\* pickOptionValue was applied to a field whose only option is
\* {label: 'United States', value: 'US'}
pickedAmongUnitedStates ==
  /\ Applied
  /\ probe.fn = "pickOptionValue"
  /\ probe.arg.field.options = <<[label |-> "United States", value |-> "US"]>>

\* C12: for a field whose only option is {label: 'United States', value:
\* 'US'}, pickOptionValue returns 'US' for the raw targets 'US', 'usa',
\* 'United States' and 'Unted Sates', and '' for 'Canada'
C12_UnitedStatesRoundTrip ==
  pickedAmongUnitedStates =>
    /\ probe.arg.rawTarget \in {"US", "usa", "United States", "Unted Sates"}
         => probeOut = "US"
    /\ probe.arg.rawTarget = "Canada" => probeOut = ""

\* the typo was resolved to 'US'
C12_Witness ==
  /\ pickedAmongUnitedStates
  /\ probe.arg.rawTarget = "Unted Sates"
  /\ probeOut = "US"

\* the text the hints are looked up in: label, name and placeholder
describedAs(field) ==
  toLowerCase(field.label \o " " \o field.name \o " " \o field.placeholder)

\* buildRuleBasedPlan was applied to a form whose only field is unfilled,
\* not generative, text-like, and described by the 'email' hint and by no
\* hint of the entry before it in the table, with an email in the profile
plannedLoneEmailField ==
  /\ Applied
  /\ probe.fn = "buildRuleBasedPlan"
  /\ Len(probeFields) = 1
  /\ ~holdsValue(probeFields[1])
  /\ ~isGenerativeField(probeFields[1].label, probeFields[1].kind)
  /\ probeFields[1].kind \notin {"select", "checkbox", "radio"}
  /\ includes(describedAs(probeFields[1]), "email")
  /\ ~includes(describedAs(probeFields[1]), "name")
  /\ probe.arg.context.profile.email # ""

\* C13: for such a form buildRuleBasedPlan returns exactly one action with
\* the field's selector, of type setValue, whose value is profile.email
C13_LoneEmailFieldFilled ==
  plannedLoneEmailField =>
    /\ Cardinality({k \in 1..Len(probeOut) :
                      probeOut[k].selector = probeFields[1].selector}) = 1
    /\ \A k \in 1..Len(probeOut) :
         probeOut[k].selector = probeFields[1].selector =>
           /\ probeOut[k].type = "setValue"
           /\ probeOut[k].value = probe.arg.context.profile.email

\* the field's description also matches the hint of a later entry whose
\* profile value is set, and the plan holds the navigation action too
C13_Witness ==
  /\ plannedLoneEmailField
  /\ includes(describedAs(probeFields[1]), "phone")
  /\ probe.arg.context.profile.phone # ""
  /\ Len(probeOut) = 2
  /\ probeOut[1].value = probe.arg.context.profile.email

\* tryParseActions was applied to the list with bare keys and a trailing
\* comma before the closing brace
parsedBareKeyList ==
  /\ Applied
  /\ probe.fn = "tryParseActions"
  /\ probe.arg.raw = "[{selector:\"#a\", type:\"setValue\", value:\"x\",}]"

\* C14: tryParseActions applied to [{selector:"#a", type:"setValue",
\* value:"x",}] returns a list of exactly one validated action, whose
\* selector is '#a'
C14_RepairsBareKeys ==
  parsedBareKeyList =>
    /\ ~probeOut.threw
    /\ ~probeOut.isNull
    /\ Len(probeOut.list) = 1
    /\ probeOut.list[1].selector = "#a"
    /\ probeOut.list[1].type \in ACTION_TYPES

\* the text was parsed and the action carries what the text says
C14_Witness ==
  /\ parsedBareKeyList
  /\ probeOut.list = <<[selector |-> "#a", type |-> "setValue", fieldLabel |-> "",
                        value |-> "x", reasoning |-> "",
                        confidence |-> LLM_DEFAULT_CONFIDENCE]>>

\* C15: every call of executeAction is made for an action the user approved
\* by a click (Approve, or Approve all above the threshold)
C15_ExecutionNeedsApproval ==
  \A k \in DOMAIN ran : ran[k].by \in {"Approve", "ApproveAll"}

\* the stored whitelist names the page's host
hostListed == isWhitelistedHost(hostname, storedWhitelist)

\* C16: on a host the stored whitelist does not name, no snapshot is
\* captured, no plan is built or under way and no action is executed
C16_NothingOnUnlistedHost ==
  ~hostListed =>
    /\ capturedSnapshot = "null"
    /\ planning = 0
    /\ actionQueue = <<>>
    /\ ran = <<>>

\* C17: from the click on Stop until the click on Reset no step executes an
\* action, and no step other than Reset clears the stopped state
C17_StopHoldsUntilReset ==
  [][stopPending => (ran' = <<>> /\ (isStopped' \/ ~stopPending'))]_vars

\* the return of an accepted attempt was computed
mergedIntoPlan == Applied /\ probe.fn = "mergeLlmActions"

\* parsed[k] names a selector whose snapshot field is not a select, and no
\* later entry of the list names it
lastForTextField(k) ==
  LET parsed == probe.arg.parsed
      f == findFieldBySelector(probe.arg.snapshot, parsed[k].selector)
  IN  /\ f # 0
      /\ probe.arg.snapshot.fields[f].kind # "select"
      /\ \A j \in (k + 1)..Len(parsed) : parsed[j].selector # parsed[k].selector

\* the places of the plan that hold an action for the selector
placesOf(selector) ==
  {i \in 1..Len(probeOut.actions) : probeOut.actions[i].selector = selector}

unrefinedReturn ==
  Returned /\ result.llmDetail.kind \in {"fallback", "skipped-retry"}

\* generateFieldContent resolved with a non-empty string for field i
proseGeneratedFor(i) == Logged(Settled(GenerateCall(i), "content"))

\* the map m after the generated prose of the fields of the sequence, in
\* their order
RECURSIVE withGeneratedProse(_, _)
withGeneratedProse(m, fields) ==
  IF Len(fields) = 0 THEN m
  ELSE withGeneratedProse(
         IF proseGeneratedFor(Head(fields))
         THEN mapSet(m, snapshot.fields[Head(fields)].selector,
                     generatedAction(snapshot, Head(fields),
                                     CHOOSE c \in GeneratedContents : c # ""))
         ELSE m,
         Tail(fields))

\* C19: a plan returned without an accepted attempt holds exactly the
\* rule-based actions, over them the pre-resolved ones, over them the prose
\* generated before the first backend call, and the navigation action:
\* nothing of it depends on what the backend answered
C19_FailedResponsesChangeNothing ==
  unrefinedReturn =>
    planActions =
      sortActions(mapValues(appendNavAction(
        snapshot,
        withGeneratedProse(seedMergedActions(ruleActions, preResolved),
                           generativeFieldsOf(snapshot)),
        1)))

\* attempt 1 answered with text that did not parse and attempt 2 answered
\* too, over a plan with a rule-based, a generated and a navigation action
C19_Witness ==
  /\ unrefinedReturn
  /\ Logged(Settled(PromptCall(1), "unparseable"))
  /\ \E tag \in {"unparseable", "parsed"} : Logged(Settled(PromptCall(2), tag))
  /\ \E i \in 1..Len(planActions) : planActions[i].id.by = "rule"
  /\ \E i \in 1..Len(planActions) : planActions[i].id.by = "gen"
  /\ \E i \in 1..Len(planActions) : planActions[i].id.by = "nav"

\* C20: a plan returned without an accepted attempt has the source hybrid
\* exactly when generateFieldContent gave a non-empty string for at least
\* one generative field, and the source rule-based otherwise
C20_SourceOfUnrefinedPlan ==
  unrefinedReturn =>
    result.source =
      IF \E i \in 1..Len(snapshot.fields) : proseGeneratedFor(i)
      THEN "hybrid" ELSE "rule-based"

\* a fallback after two failed attempts with prose generated for one field
\* and an empty string for none, returned as hybrid
C20_Witness ==
  /\ unrefinedReturn
  /\ result.llmDetail.kind = "fallback"
  /\ \E i \in 1..Len(snapshot.fields) : proseGeneratedFor(i)
  /\ result.source = "hybrid"

\* a plan returned through an accepted attempt
refinedReturn ==
  Returned /\ result.llmDetail.kind \in {"refined", "retry-refined"}

selectFieldsAt(selector) ==
  {i \in 1..Len(snapshot.fields) :
     snapshot.fields[i].kind = "select" /\ snapshot.fields[i].selector = selector}

\* C22: in a returned plan, every action on the selector of a select-kind
\* field has the value of one of that field's options
C22_SelectActionsHoldOptionValues ==
  Returned =>
    \A a \in 1..Len(planActions) :
      \A i \in selectFieldsAt(planActions[a].selector) :
        \E o \in 1..Len(snapshot.fields[i].options) :
          snapshot.fields[i].options[o].value = planActions[a].value

\* C23: with a navigation target in the snapshot, every returned plan holds
\* a clickNext action on the first target's selector with an empty value
\* and the fixed confidence 0.58, written by appendNavAction; the jittered
\* navigation action of buildRuleBasedPlan is in no returned plan
C23_NavActionIsFixed ==
  (Returned /\ Len(snapshot.navigationTargets) > 0) =>
    /\ \E i \in 1..Len(planActions) :
         /\ planActions[i].type = "clickNext"
         /\ planActions[i].selector = snapshot.navigationTargets[1].selector
         /\ planActions[i].value = ""
         /\ planActions[i].confidence = NAV_CONFIDENCE
         /\ planActions[i].id.by = "nav"
    /\ \A i \in 1..Len(planActions) :
         planActions[i].type = "clickNext" => planActions[i].id.by # "rule"

\* a plan returned through an accepted attempt, and one returned without,
\* where the rule-based plan held a navigation action of another confidence
C23_Witness ==
  /\ Returned
  /\ Len(snapshot.navigationTargets) > 0
  /\ \E i \in 1..Len(ruleActions) :
       /\ ruleActions[i].type = "clickNext"
       /\ ruleActions[i].confidence # NAV_CONFIDENCE
  /\ result.llmDetail.kind \in {"refined", "fallback"}
  /\ Len(planActions) > 1

\* C24: every clickNext action of a returned plan has the selector of the
\* first navigation target, and a plan for a snapshot without navigation
\* targets holds none
C24_ClickNextOnlyOnFirstTarget ==
  Returned =>
    \A i \in 1..Len(planActions) :
      planActions[i].type = "clickNext" =>
        /\ Len(snapshot.navigationTargets) > 0
        /\ planActions[i].selector = snapshot.navigationTargets[1].selector


\* tryParseActions was applied to a backend text
parserApplied == probe.fn = "tryParseActions" /\ Applied

\* C25: tryParseActions returns null or a non-empty list whose elements
\* each have a non-empty selector, one of the five action types and a
\* confidence in [0, 1]; it returns no empty list, and a response with an
\* empty action list gives null
C25_NullOrValidNonEmptyList ==
  parserApplied =>
    /\ ~probeOut.threw
    /\ \/ probeOut.isNull
       \/ /\ Len(probeOut.list) > 0
          /\ \A k \in 1..Len(probeOut.list) :
               /\ probeOut.list[k].selector # ""
               /\ probeOut.list[k].type \in ACTION_TYPES
               /\ probeOut.list[k].confidence \in 0..CONF_SCALE
    /\ probe.arg.raw \in {"[]", "{\"actions\":[]}"} => probeOut.isNull

\* backend texts with one otherwise valid action object, and the confidence
\* the action is to have: the default for a missing one, the nearest bound
\* for one outside [0, 1]
expectedConfidence ==
  [t \in {"[{\"selector\":\"#a\",\"type\":\"setValue\",\"value\":\"x\"}]",
          "[{\"selector\":\"#a\",\"type\":\"setValue\",\"confidence\":1.5}]",
          "[{\"selector\":\"#a\",\"type\":\"setValue\",\"confidence\":-0.5}]"} |->
     CASE t = "[{\"selector\":\"#a\",\"type\":\"setValue\",\"value\":\"x\"}]" ->
            LLM_DEFAULT_CONFIDENCE
       [] t = "[{\"selector\":\"#a\",\"type\":\"setValue\",\"confidence\":1.5}]" ->
            CONF_SCALE
       [] OTHER -> 0]

\* C26: an otherwise valid backend action is kept, with the confidence 0.6
\* when it has none, 1 when its confidence is above 1 and 0 when it is
\* below 0
C26_ConfidenceBroughtIntoRange ==
  (parserApplied /\ probe.arg.raw \in DOMAIN expectedConfidence) =>
    /\ ~probeOut.threw
    /\ ~probeOut.isNull
    /\ Len(probeOut.list) = 1
    /\ probeOut.list[1].selector = "#a"
    /\ probeOut.list[1].confidence = expectedConfidence[probe.arg.raw]


\* the step settles generateFieldContent for field i with a rejection or
\* with an empty string
failedGenerationStep(i) ==
  /\ pc = "awaitGenerate"
  /\ Len(callLog') > Len(callLog)
  /\ callLog'[Len(callLog) + 1] \in {Settled(GenerateCall(i), "rejected"),
                                     Settled(GenerateCall(i), "empty")}

\* C27: a generateFieldContent call that rejects or gives an empty string
\* leaves the action map and the count as they were and lets the plan go
\* on, with the call for the next generative field or, after the last one,
\* with the first backend call; the count is always the number of fields
\* whose call gave a non-empty string
C27_FailedGenerationIsSkipped ==
  [][/\ \A i \in 1..Len(snapshot.fields) :
          failedGenerationStep(i) =>
            /\ mergedActions' = mergedActions
            /\ generatedCount' = generatedCount
            /\ pendingGenerative' = Tail(pendingGenerative)
            /\ IF Len(pendingGenerative) > 1
               THEN /\ pc' = "awaitGenerate"
                    /\ GenerateCall(pendingGenerative[2]) \in inflight'
               ELSE /\ pc' = "awaitAttempt1"
                    /\ PromptCall(1) \in inflight'
     /\ (generatedCount =
           Cardinality({i \in 1..Len(snapshot.fields) : proseGeneratedFor(i)}))'
    ]_vars

\* a plan returned for two generative fields: the call for the first one
\* failed, the call for the second one gave prose, which is in the plan
C27_Witness ==
  /\ Returned
  /\ \E tag \in {"rejected", "empty"} : Logged(Settled(GenerateCall(1), tag))
  /\ proseGeneratedFor(2)
  /\ generatedCount = 1
  /\ \E a \in 1..Len(planActions) :
       /\ planActions[a].id = NewId("gen", 2)
       /\ planActions[a].selector = snapshot.fields[2].selector
  /\ \A a \in 1..Len(planActions) : planActions[a].id # NewId("gen", 1)


\* buildRuleBasedPlan was applied
rulePlannerApplied == Applied /\ probe.fn = "buildRuleBasedPlan"

\* field i of the planned snapshot is a checkbox that is not checked and
\* whose label does not ask for prose
openCheckbox(i) ==
  /\ probeFields[i].kind = "checkbox"
  /\ ~holdsValue(probeFields[i])
  /\ ~isGenerativeField(firstTruthy(<<probeFields[i].label, probeFields[i].name,
                                      probeFields[i].placeholder, "">>),
                        probeFields[i].kind)

\* whether the resolved value says the box is to be checked
saysChecked(v) ==
  \E w \in {"yes", "true", "1", "required"} : includes(toLowerCase(v), w)

\* the plan holds one action for field i, a setCheckbox with the value read
\* from the resolved profile value
checkboxActionFor(i) ==
  /\ Cardinality({k \in 1..Len(probeOut) :
                    probeOut[k].selector = probeFields[i].selector}) = 1
  /\ \A k \in 1..Len(probeOut) :
       probeOut[k].selector = probeFields[i].selector =>
         /\ probeOut[k].type = "setCheckbox"
         /\ probeOut[k].value = IF saysChecked(profileValueOf(i)) THEN "true" ELSE "false"

\* C28 as stated: buildRuleBasedPlan produces a setCheckbox action for
\* every checkbox that is not checked and is not generative, 'true' if the
\* resolved value contains yes, true, 1 or required, 'false' otherwise
C28_CheckboxAlwaysPlanned ==
  rulePlannerApplied =>
    \A i \in 1..Len(probeFields) : openCheckbox(i) => checkboxActionFor(i)

\* C28, amended: buildRuleBasedPlan produces that action for every such
\* checkbox for which the profile resolves a non-empty value, and no action
\* for a checkbox without a resolved value
C28_CheckboxPlannedWhenResolved ==
  rulePlannerApplied =>
    \A i \in 1..Len(probeFields) :
      openCheckbox(i) =>
        IF profileValueOf(i) # "" THEN checkboxActionFor(i)
        ELSE \A k \in 1..Len(probeOut) : probeOut[k].selector # probeFields[i].selector

\* a checkbox planned as false from an answer that holds none of the words
C28_Witness ==
  /\ rulePlannerApplied
  /\ openCheckbox(1)
  /\ profileValueOf(1) = "Maybe"
  /\ \E k \in 1..Len(probeOut) :
       probeOut[k].type = "setCheckbox" /\ probeOut[k].value = "false"


\* pickOptionValue was applied to a non-empty target
resolverApplied ==
  Applied /\ probe.fn = "pickOptionValue" /\ probe.arg.rawTarget # ""

probeOptions == probe.arg.field.options

probeTarget == normalize(probe.arg.rawTarget)

\* the options each stage of the resolver finds for the target, whatever
\* their place in the list: 1 exact value, 2 exact label, 3 alias (the
\* target, or a name of the same country, as value or label), 4 label
\* containing the target or contained in it, 5 similarity of at least 0.85
stageFinds(stage) ==
  {k \in 1..Len(probeOptions) :
     LET l == normalize(probeOptions[k].label)
         w == normalize(probeOptions[k].value)
     IN  CASE stage = 1 -> w = probeTarget
           [] stage = 2 -> l = probeTarget
           [] stage = 3 -> \/ w = probeTarget \/ l = probeTarget
                           \/ sameCountry(probeTarget, w) \/ sameCountry(probeTarget, l)
           [] stage = 4 -> includes(l, probeTarget) \/ includes(probeTarget, l)
           [] OTHER -> LET ls == jaroWinkler(probeTarget, l)
                           ws == jaroWinkler(probeTarget, w)
                       IN  \/ ~fracLess(ls[1], ls[2], 85, 100)
                           \/ ~fracLess(ws[1], ws[2], 85, 100)}

\* the first stage that finds an option, 0 if none does
firstStage ==
  IF \E n \in 1..5 : stageFinds(n) # {}
  THEN CHOOSE n \in 1..5 : stageFinds(n) # {} /\ \A m \in 1..(n - 1) : stageFinds(m) = {}
  ELSE 0

\* C29: pickOptionValue returns the value of an option found by the first
\* of the stages exact value, exact label, alias, substring, similarity
\* that finds any, wherever the options stand in the list, and the empty
\* string when no stage finds one; so an option whose value equals the
\* target wins over an earlier option whose label equals, contains or
\* resembles the target
C29_FirstStageDecides ==
  resolverApplied =>
    IF firstStage = 0 THEN probeOut = ""
    ELSE probeOut \in {probeOptions[k].value : k \in stageFinds(firstStage)}

\* the target is the value of the second option and the label of the first
\* one, and the second option is returned
C29_Witness ==
  /\ resolverApplied
  /\ Len(probeOptions) = 2
  /\ 2 \in stageFinds(1) /\ 1 \notin stageFinds(1)
  /\ 1 \in stageFinds(2)
  /\ probeOut = probeOptions[2].value
  /\ probeOut # probeOptions[1].value


\* findProfileValueForField was applied
hintResolverApplied == Applied /\ probe.fn = "findProfileValueForField"

\* the entries of the hint table one of whose hints is a substring of the
\* field's description
matchingEntries ==
  {k \in 1..Len(PROFILE_HINTS) :
     \E h \in 1..Len(PROFILE_HINTS[k].hints) :
       includes(describedAs(probe.arg.field), PROFILE_HINTS[k].hints[h])}

\* the first of them in table order
firstMatchingEntry ==
  CHOOSE k \in matchingEntries : \A j \in matchingEntries : k <= j

\* city, state and country, the empty ones left out, joined by ", "
composedLocation ==
  LET p == probe.arg.context.profile
      parts == SelectSeq(<<p.city, p.state, p.country>>, LAMBDA x : x # "")
  IN  IF Len(parts) = 0 THEN ""
      ELSE IF Len(parts) = 1 THEN parts[1]
      ELSE IF Len(parts) = 2 THEN parts[1] \o ", " \o parts[2]
      ELSE parts[1] \o ", " \o parts[2] \o ", " \o parts[3]

\* C30: findProfileValueForField returns the profile value of the first
\* hint entry, in table order, that matches the field's description (''
\* when that value is empty); the composed location only when no entry
\* matches and the description holds 'location' or 'address'; '' otherwise
C30_FirstMatchingEntryDecides ==
  hintResolverApplied =>
    probeOut =
      IF matchingEntries # {}
      THEN probe.arg.context.profile[PROFILE_HINTS[firstMatchingEntry].key]
      ELSE IF \/ includes(describedAs(probe.arg.field), "location")
              \/ includes(describedAs(probe.arg.field), "address")
           THEN composedLocation
      ELSE ""


\* the option value that resolves for field i of the snapshot from the
\* profile, "" when no profile value resolves or no option matches
resolvedOptionOf(i) ==
  LET v == findProfileValueForField(snapshot.fields[i], context)
  IN  IF v = "" THEN "" ELSE pickOptionValue(snapshot.fields[i], v)

\* field i is a select without a meaningful value for which a profile value
\* resolves and an option matches
resolvableSelect(i) ==
  /\ snapshot.fields[i].kind = "select"
  /\ ~holdsValue(snapshot.fields[i])
  /\ resolvedOptionOf(i) # ""

\* the action is a rule-based one on the selector of a select field
ruleSelectAction(a) ==
  /\ a.id.by = "rule"
  /\ \E i \in 1..Len(snapshot.fields) :
       snapshot.fields[i].kind = "select" /\ snapshot.fields[i].selector = a.selector

\* no call has settled yet: the map is as it was seeded
justSeeded ==
  /\ pc \in {"awaitGenerate", "awaitAttempt1"}
  /\ \A k \in 1..Len(callLog) : callLog[k].event = "start"

\* C31: the map seeded before the first call holds, for every unfilled
\* select field whose profile value resolves to an option, the pre-resolved
\* setSelect action with confidence 0.85; no rule-based action for a select
\* field is in the map at any time, nor in a plan returned without an
\* accepted attempt
C31_PreResolvedSelectSeeded ==
  /\ justSeeded =>
       \A i \in 1..Len(snapshot.fields) :
         resolvableSelect(i) =>
           \E k \in 1..Len(mergedActions) :
             /\ mergedActions[k].key = snapshot.fields[i].selector
             /\ mergedActions[k].value.id.by = "pre"
             /\ mergedActions[k].value.type = "setSelect"
             /\ mergedActions[k].value.value = resolvedOptionOf(i)
             /\ mergedActions[k].value.confidence = PRE_RESOLVED_CONFIDENCE
  /\ \A k \in 1..Len(mergedActions) : ~ruleSelectAction(mergedActions[k].value)
  /\ unrefinedReturn =>
       \A a \in 1..Len(planActions) : ~ruleSelectAction(planActions[a])

\* a plan returned without an accepted attempt: the rule-based planner had
\* made a setSelect action for the select field, and the plan holds the
\* pre-resolved one
C31_Witness ==
  /\ unrefinedReturn
  /\ \E i \in 1..Len(snapshot.fields) :
       /\ resolvableSelect(i)
       /\ \E r \in 1..Len(ruleActions) :
            /\ ruleActions[r].selector = snapshot.fields[i].selector
            /\ ruleActions[r].type = "setSelect"
            /\ ruleActions[r].confidence # PRE_RESOLVED_CONFIDENCE
       /\ \E a \in 1..Len(planActions) :
            /\ planActions[a].selector = snapshot.fields[i].selector
            /\ planActions[a].id.by = "pre"
            /\ planActions[a].confidence = PRE_RESOLVED_CONFIDENCE


\* the selectors of the fields without a meaningful value whose action in
\* the returned plan came from the backend response
refinedSelectors ==
  {snapshot.fields[i].selector : i \in
     {j \in 1..Len(snapshot.fields) :
        /\ ~holdsValue(snapshot.fields[j])
        /\ \E a \in backendActions :
             planActions[a].selector = snapshot.fields[j].selector}}

\* C33: in the detail of an accepted attempt ('LLM refined k/N fields') k is
\* at most N, the number of fields without a meaningful value, and k is the
\* number of distinct unfilled fields whose action the backend response set
C33_RefinedCountWithinTotal ==
  refinedReturn =>
    /\ result.llmDetail.llmCount <= result.llmDetail.totalFields
    /\ result.llmDetail.totalFields =
         Cardinality({i \in 1..Len(snapshot.fields) : ~holdsValue(snapshot.fields[i])})
    /\ result.llmDetail.llmCount = Cardinality(refinedSelectors)


\* field i of the snapshot is classified as generative
generativeField(i) ==
  isGenerativeField(firstTruthy(<<snapshot.fields[i].label, snapshot.fields[i].name,
                                  snapshot.fields[i].placeholder, "">>),
                    snapshot.fields[i].kind)

\* the action was written by prose generation, by pre-resolution or from a
\* backend response
notRulePlanned(a) == a.id.by \in {"gen", "pre", "llm1", "llm2"}

\* C34: buildRuleBasedPlan emits no action for a generative field, also
\* when a profile hint matches its description, and whatever action the
\* map or a returned plan holds for such a field was written by prose
\* generation, pre-resolution or backend refinement
C34_GenerativeFieldsNotRulePlanned ==
  pc # "start" =>
    \A i \in 1..Len(snapshot.fields) :
      generativeField(i) =>
        /\ \A r \in 1..Len(ruleActions) :
             /\ ruleActions[r].id # NewId("rule", i)
             /\ ruleActions[r].selector # snapshot.fields[i].selector
        /\ \A k \in 1..Len(mergedActions) :
             mergedActions[k].key = snapshot.fields[i].selector =>
               notRulePlanned(mergedActions[k].value)
        /\ Returned =>
             \A a \in 1..Len(planActions) :
               planActions[a].selector = snapshot.fields[i].selector =>
                 notRulePlanned(planActions[a])

\* a returned plan for a generative field whose description matches a hint
\* with a profile value, next to a field the rule-based planner filled: the
\* plan holds generated prose for the first and the rule-based action for
\* the second
C34_Witness ==
  /\ Returned
  /\ \E i \in 1..Len(snapshot.fields) :
       /\ generativeField(i)
       /\ findProfileValueForField(snapshot.fields[i], context) # ""
       /\ \E a \in 1..Len(planActions) :
            /\ planActions[a].selector = snapshot.fields[i].selector
            /\ planActions[a].id.by = "gen"
  /\ \E a \in 1..Len(planActions) : planActions[a].id.by = "rule"


\* the fill type that corresponds to a kind of control
fillTypeOf(kind) ==
  CASE kind = "select" -> "setSelect"
    [] kind = "checkbox" -> "setCheckbox"
    [] kind = "radio" -> "setRadio"
    [] OTHER -> "setValue"

\* C35: every fill action of a returned plan has the type that corresponds
\* to the kind of the snapshot field it targets
C35_FillTypeMatchesKind ==
  Returned =>
    \A a \in 1..Len(planActions) :
      isFill(planActions[a]) =>
        \A i \in 1..Len(snapshot.fields) :
          snapshot.fields[i].selector = planActions[a].selector =>
            planActions[a].type = fillTypeOf(snapshot.fields[i].kind)

\* C36: a returned plan holds no fill action on the selector of a field
\* that holds a meaningful value
C36_NoFillForFilledField ==
  Returned =>
    \A a \in 1..Len(planActions) :
      isFill(planActions[a]) =>
        \A i \in 1..Len(snapshot.fields) :
          snapshot.fields[i].selector = planActions[a].selector =>
            ~holdsValue(snapshot.fields[i])

\* the navigation action as the snapshot alone determines it
navActionOf(snap) ==
  [type |-> "clickNext",
   selector |-> snap.navigationTargets[1].selector,
   fieldLabel |-> IF snap.navigationTargets[1].text # ""
                  THEN snap.navigationTargets[1].text ELSE "Next button",
   value |-> "",
   reasoning |-> "Detected likely navigation control",
   confidence |-> NAV_CONFIDENCE]

\* an action without its identifier
withoutId(a) == [f \in DOMAIN a \ {"id"} |-> a[f]]

\* C37: the action a returned plan holds at the first navigation target's
\* selector is determined by the snapshot: its type, value, label, reasoning
\* and confidence are the same whatever the backend answered and whichever
\* return was taken, so they agree between any two runs on one snapshot
C37_NavActionFromSnapshotAlone ==
  (Returned /\ Len(snapshot.navigationTargets) > 0) =>
    /\ Cardinality({a \in 1..Len(planActions) :
                      planActions[a].selector = snapshot.navigationTargets[1].selector}) = 1
    /\ \A a \in 1..Len(planActions) :
         planActions[a].selector = snapshot.navigationTargets[1].selector =>
           withoutId(planActions[a]) = navActionOf(snapshot)

\* a plan returned through an accepted attempt whose response put an action
\* into the plan, with the navigation action as the snapshot gives it
C37_Witness ==
  /\ refinedReturn
  /\ backendActions # {}
  /\ Len(snapshot.navigationTargets) > 0
  /\ \E a \in 1..Len(planActions) :
       /\ withoutId(planActions[a]) = navActionOf(snapshot)
       /\ planActions[a].fieldLabel = "Next"


(***************************************************************************)
(* Properties of the engine module.                                        *)
(***************************************************************************)
loadIds(ls) == {l.id : l \in ls}

\* C32: at most one CreateMLCEngine call is in flight; no step starts one
\* while another is in flight or while an engine is kept, and a call made
\* while a load is pending awaits that load
C32_OneLoadInFlight ==
  [][/\ Cardinality(loads') <= 1
     /\ (loads # {} \/ engine # NoEngine) => loads' \subseteq loads
     /\ \A c \in pendingCalls' \ pendingCalls :
          c.stage = "load" =>
            /\ c.load \in loadIds(loads')
            /\ loads # {} => c.load \in loadIds(loads)
    ]_vars

\* one load in flight and two calls awaiting it, the second of them made
\* after the user chose another model
C32_Witness ==
  /\ Cardinality(loads) = 1
  /\ Cardinality({c \in pendingCalls :
                    c.stage = "load" /\ c.load = pendingLoad}) = 2
  /\ \E c \in pendingCalls : c.preferred # "" /\ c.preferred # currentModelId

\* C38: once hardFailureReason is set it stays set, whatever is called, no
\* load is started or in flight, and every call of warmupWebLlm,
\* runWebLlmPrompt and runWebLlmTextGeneration rejects
C38_HardFailureIsFinal ==
  [][hardFailureReason # "" =>
       /\ hardFailureReason' = hardFailureReason
       /\ loads' = {}
       /\ engine' = NoEngine
       /\ lastEvent'.op \in ExportedFunctions =>
            /\ lastEvent'.rejected = {lastEvent'.op}
            /\ ~lastEvent'.started
            /\ lastEvent'.returned = {}
    ]_vars

\* after the hard failure the user chose another, available model, and the
\* reason is still set
C38_Witness ==
  /\ hardFailureReason # ""
  /\ lastEvent.op = "setPreferredModel"
  /\ isAvailable(lastEvent.arg)
  /\ lastEvent.arg # currentModelId
  /\ status.state = "rule-based"

\* C39: every engine warmupWebLlm gives a caller was loaded for the model
\* the user preferred when the call was made, if that model is available
C39_EngineOfPreferredModel ==
  \A r \in lastEvent.returned :
    isAvailable(r.preferred) => r.engine.modelId = r.preferred


=============================================================================
